---- MODULE Spec2Model ----
(***************************************************************************)
(* Model of google/safetext: the shell-template facade (shtemplate) and    *)
(* the shell-printf facade (shsprintf).  A string is a sequence of         *)
(* one-character strings.  Both facades render a template several times,   *)
(* parse each rendering as a shell script and compare the parse trees.     *)
(***************************************************************************)
EXTENDS Integers, Sequences, FiniteSets, TLC

\* ------------------------------------------------------------------------
\* Bounds
\* ------------------------------------------------------------------------

\* longest data string substituted into a template or format
MaxLen == 3

\* the backquote character (it cannot be written inside a TLA+ string)
BQ == "bq"

\* characters a data string is made of
DataAlphabet == {"a", "-", " ", BQ, "*", "+", "\\"}

RECURSIVE StringsUpTo(_)
StringsUpTo(n) ==
    IF n = 0 THEN {<<>>}
    ELSE LET shorter == StringsUpTo(n - 1)
         IN  shorter \cup {Append(s, c) : s \in {t \in shorter : Len(t) = n - 1},
                                          c \in DataAlphabet}

\* argument strings of the repository's tests that the alphabet does not
\* reach: substitutions that begin a comment
CommentStrings ==
    {<<"x", ";", "b", " ", "#">>, <<"a", " ", "#">>, <<"#">>, <<"a", "#">>, <<"a", ";", "#">>}

\* data that add a redirection or a statement
ListStrings == {<<"a", ">", "a">>, <<"a", "\n", "a">>}

DataStrings == StringsUpTo(MaxLen) \cup CommentStrings \cup ListStrings

\* the strings given to EscapeDefaultContext
MaxArgLen == 3
ArgAlphabet == {"a", "\\", "*", "+", " ", "\t", "~", "{", "\"", BQ, "$", ";", "#"}

RECURSIVE ArgsUpTo(_)
ArgsUpTo(n) ==
    IF n = 0 THEN {<<>>}
    ELSE LET shorter == ArgsUpTo(n - 1)
         IN  shorter \cup {Append(s, c) : s \in {t \in shorter : Len(t) = n - 1},
                                          c \in ArgAlphabet}

ArgStrings == ArgsUpTo(MaxArgLen)

\* ------------------------------------------------------------------------
\* String helpers (Go package strings)
\* ------------------------------------------------------------------------

HasPrefix(s, p) == Len(s) >= Len(p) /\ SubSeq(s, 1, Len(p)) = p

\* strings.Count(s, c) for a one-character c
Count(s, c) == Cardinality({i \in 1..Len(s) : s[i] = c})

\* the sub-string of s from position i to the end
Tail_(s, i) == SubSeq(s, i, Len(s))

\* the package whose entry point is called: "shtemplate" (Template.Execute)
\* or "shsprintf" (SprintfLang)
VARIABLE facade

\* ------------------------------------------------------------------------
\* Shell parser (mvdan.cc/sh/v3/syntax), restricted to the grammar the
\* templates and data of this model can produce: statements separated by
\* ';' or newline, call expressions, redirections '>' '>>' '<', literals
\* with backslash escapes, single quotes, double quotes, backquoted command
\* substitutions, short parameter expansions, comments and declarations
\* of functions 'name() { statements; }' whose body holds no brace; of the
\* braced parameter expansions the form ${name:-word}.
\* ------------------------------------------------------------------------

Blank == {" ", "\t"}
StmtEnd == {";", "\n"}
RedirStart == {">", "<"}
WordBreak == Blank \cup StmtEnd \cup RedirStart
QuoteStart == {"'", "\"", BQ}
NameChars == {"a", "b", "c", "x", "y"}

LitPart(v) ==
    [kind |-> "Lit", value |-> v, parts |-> <<>>, stmts |-> <<>>, last |-> <<>>, backquotes |-> FALSE,
     exp |-> "nil"]
SglQuotedPart(v) ==
    [kind |-> "SglQuoted", value |-> v, parts |-> <<>>, stmts |-> <<>>, last |-> <<>>, backquotes |-> FALSE,
     exp |-> "nil"]
DblQuotedPart(ps) ==
    [kind |-> "DblQuoted", value |-> <<>>, parts |-> ps, stmts |-> <<>>, last |-> <<>>, backquotes |-> FALSE,
     exp |-> "nil"]
ParamExpPart(v) ==
    [kind |-> "ParamExp", value |-> v, parts |-> <<>>, stmts |-> <<>>, last |-> <<>>, backquotes |-> FALSE,
     exp |-> "nil"]
CmdSubstPart(ss, l) ==
    [kind |-> "CmdSubst", value |-> <<>>, parts |-> <<>>, stmts |-> ss, last |-> l, backquotes |-> TRUE,
     exp |-> "nil"]

\* ${v:-word}: Exp is &Expansion{Word: p.getWord()}, and getWord returns
\* nil for a word without parts
ParamExpWith(v, ps) ==
    [ParamExpPart(v) EXCEPT !.parts = ps, !.exp = IF ps = <<>> THEN "nilword" ELSE "word"]

\* a command without a name: Name == nil
NilName == <<"nil">>

NilCmd ==
    [kind |-> "nil", assigns |-> <<>>, args |-> <<>>,
     rsrvWord |-> FALSE, name |-> NilName, body |-> <<>>, last |-> <<>>]
CallExpr(as, ws) == [NilCmd EXCEPT !.kind = "CallExpr", !.assigns = as, !.args = ws]

\* name() { ss }: Body is a statement whose command is the block of the
\* statements ss, with the comments l before its closing brace
FuncDecl(n, ss, l) == [NilCmd EXCEPT !.kind = "FuncDecl", !.name = n, !.body = ss, !.last = l]

NilWord ==
    <<[kind |-> "nilword", value |-> <<>>, parts |-> <<>>, stmts |-> <<>>, last |-> <<>>,
       backquotes |-> FALSE, exp |-> "nil"]>>
Redirect(o, w, h) == [op |-> o, word |-> w, hdoc |-> h]

Assign(n, v) == [name |-> n, value |-> v]

Stmt(as, ws, rs) ==
    [redirs |-> rs, cmd |-> IF as = <<>> /\ ws = <<>> THEN NilCmd ELSE CallExpr(as, ws),
     comments |-> <<>>]

EmptyStmt == Stmt(<<>>, <<>>, <<>>)

RECURSIVE LineEnd(_, _)
ParseFail == [ok |-> FALSE, parts |-> <<>>, stmts |-> <<>>, last |-> <<>>, stmt |-> EmptyStmt, pos |-> 0]

\* the parser option KeepComments: SprintfLang sets it, Execute does not
KeepComments == facade = "shsprintf"

\* end (exclusive) of the line that holds position i
LineEnd(s, i) == IF i > Len(s) \/ s[i] = "\n" THEN i ELSE LineEnd(s, i + 1)

\* the comment whose '#' stands at k, as the list it adds to: its text when
\* comments are kept, nothing otherwise
CommentAt(s, k) == IF KeepComments THEN <<SubSeq(s, k + 1, LineEnd(s, k) - 1)>> ELSE <<>>

RECURSIVE SkipOver(_, _, _)
SkipOver(s, i, cs) ==
    IF i <= Len(s) /\ s[i] \in cs THEN SkipOver(s, i + 1, cs) ELSE i

\* end (exclusive) of the literal that starts at i; a backslash takes the
\* character after it into the literal
RECURSIVE ScanLit(_, _, _)
ScanLit(s, i, stops) ==
    IF i > Len(s) THEN i
    ELSE IF s[i] = "\\" THEN (IF i + 1 <= Len(s) THEN ScanLit(s, i + 2, stops) ELSE i + 1)
    ELSE IF s[i] \in stops THEN i
    ELSE IF s[i] = "$" /\ i + 1 <= Len(s) /\ s[i + 1] \in NameChars THEN i
    ELSE ScanLit(s, i + 1, stops)

\* position of the next q at or after i (0 when there is none); with esc a
\* backslash hides the character after it
RECURSIVE FindClose(_, _, _, _)
FindClose(s, i, q, esc) ==
    IF i > Len(s) THEN 0
    ELSE IF esc /\ s[i] = "\\" THEN FindClose(s, i + 2, q, esc)
    ELSE IF s[i] = q THEN i
    ELSE FindClose(s, i + 1, q, esc)

RECURSIVE ParseParts(_, _, _, _)
RECURSIVE ParseStmt(_, _, _, _, _)
RECURSIVE ParseStmtList(_, _, _, _)

\* position of the brace that closes a block, at or after i (0: none): a
\* '}' that starts a statement; word says that a word may start at i, stmt
\* that a statement may
RECURSIVE FindBrace(_, _, _, _)
FindBrace(s, i, word, stmt) ==
    IF i > Len(s) THEN 0
    ELSE IF s[i] = "\\" THEN FindBrace(s, i + 2, FALSE, FALSE)
    ELSE IF s[i] \in Blank THEN FindBrace(s, i + 1, TRUE, stmt)
    ELSE IF s[i] \in StmtEnd THEN FindBrace(s, i + 1, TRUE, TRUE)
    ELSE IF s[i] = "#" /\ word THEN FindBrace(s, LineEnd(s, i), TRUE, stmt)
    ELSE IF s[i] = "}" /\ stmt THEN i
    ELSE FindBrace(s, i + 1, FALSE, FALSE)

\* after the statements inner of the body of the function name, whose
\* block closes at j
AfterFuncBody(s, name, j, inner) ==
    IF ~inner.ok \/ inner.stmts = <<>> THEN ParseFail
    ELSE [ParseFail EXCEPT !.ok = TRUE,
            !.stmt = [redirs |-> <<>>, cmd |-> FuncDecl(name, inner.stmts, inner.last),
                      comments |-> <<>>],
            !.pos = SkipOver(s, j + 1, Blank)]

\* the declaration of the function name; i follows its "()"
FuncDeclFrom(s, name, i) ==
    LET k == SkipOver(s, i, Blank \cup {"\n"})
        j == FindBrace(s, k + 1, TRUE, TRUE)
    IN  IF k + 1 > Len(s) \/ s[k] # "{" \/ s[k + 1] \notin Blank \cup {"\n"} \/ j = 0 THEN ParseFail
        ELSE AfterFuncBody(s, name, j, ParseStmtList(SubSeq(s, k + 1, j - 1), 1, <<>>, <<>>))

PartsAt(acc, i) == [ParseFail EXCEPT !.ok = TRUE, !.parts = acc, !.pos = i]

\* after the inside r of a double quote: the rest of the word
AfterDblQuoted(s, mode, acc, r) ==
    IF ~r.ok THEN ParseFail
    ELSE ParseParts(s, r.pos + 1, mode, Append(acc, DblQuotedPart(r.parts)))

\* after the statements inner of a command substitution that closes at j
AfterCmdSubst(s, j, mode, acc, inner) ==
    IF ~inner.ok THEN ParseFail
    ELSE ParseParts(s, j + 1, mode, Append(acc, CmdSubstPart(inner.stmts, inner.last)))

\* after the word r of the expansion ${name:-word}
AfterExpWord(s, mode, acc, name, r) ==
    IF ~r.ok THEN ParseFail
    ELSE ParseParts(s, r.pos + 1, mode, Append(acc, ParamExpWith(name, r.parts)))

\* the expansion ${name:-word} that opens at i
ParamExpFrom(s, i, mode, acc) ==
    LET j == SkipOver(s, i + 2, NameChars)
    IN  IF j = i + 2 \/ j + 1 > Len(s) \/ s[j] # ":" \/ s[j + 1] # "-" THEN ParseFail
        ELSE AfterExpWord(s, mode, acc, SubSeq(s, i + 2, j - 1), ParseParts(s, j + 2, "exp", <<>>))

\* a backquoted command substitution that opens at i and closes at j
CmdSubstFrom(s, i, j, mode, acc) ==
    IF j = 0 THEN ParseFail
    ELSE AfterCmdSubst(s, j, mode, acc, ParseStmtList(SubSeq(s, i + 1, j - 1), 1, <<>>, <<>>))

\* the parts of one word starting at i.  mode "word": an unquoted word;
\* "dq": the inside of a double quote, up to the closing quote; "exp": the
\* word of a parameter expansion, up to the closing brace; "hdoc": a
\* here-document body, up to the end of s
ParseParts(s, i, mode, acc) ==
    IF i > Len(s) THEN (IF mode \in {"dq", "exp"} THEN ParseFail ELSE PartsAt(acc, i))
    ELSE IF mode = "dq" /\ s[i] = "\"" THEN PartsAt(acc, i)
    ELSE IF mode = "exp" /\ s[i] = "}" THEN PartsAt(acc, i)
    ELSE IF s[i] = "$" /\ i + 1 <= Len(s) /\ s[i + 1] = "{" THEN ParamExpFrom(s, i, mode, acc)
    ELSE IF mode = "word" /\ s[i] \in WordBreak THEN PartsAt(acc, i)
    ELSE IF mode = "word" /\ acc = <<>> /\ s[i] = "#" THEN PartsAt(acc, i)
    ELSE IF mode \in {"word", "exp"} /\ s[i] = "'" THEN
        LET j == FindClose(s, i + 1, "'", FALSE)
        IN  IF j = 0 THEN ParseFail
            ELSE ParseParts(s, j + 1, mode, Append(acc, SglQuotedPart(SubSeq(s, i + 1, j - 1))))
    ELSE IF mode \in {"word", "exp"} /\ s[i] = "\"" THEN
        AfterDblQuoted(s, mode, acc, ParseParts(s, i + 1, "dq", <<>>))
    ELSE IF s[i] = BQ THEN
        CmdSubstFrom(s, i, FindClose(s, i + 1, BQ, TRUE), mode, acc)
    ELSE IF s[i] = "$" /\ i + 1 <= Len(s) /\ s[i + 1] \in NameChars THEN
        LET j == SkipOver(s, i + 1, NameChars)
        IN  ParseParts(s, j, mode, Append(acc, ParamExpPart(SubSeq(s, i + 1, j - 1))))
    ELSE
        LET stops == IF mode = "word" THEN WordBreak \cup QuoteStart
                     ELSE IF mode = "exp" THEN QuoteStart \cup {"}"}
                     ELSE IF mode = "dq" THEN {"\"", BQ} ELSE {BQ}
            j == ScanLit(s, i, stops)
        IN  ParseParts(s, j, mode, Append(acc, LitPart(SubSeq(s, i, j - 1))))

\* start of the first line at or after position i that is exactly delim
\* (0 when there is none)
RECURSIVE FindHdocEnd(_, _, _)
FindHdocEnd(s, i, delim) ==
    IF i > Len(s) THEN 0
    ELSE LET e == FindClose(s, i, "\n", FALSE)
             last == IF e = 0 THEN Len(s) ELSE e - 1
         IN  IF SubSeq(s, i, last) = delim THEN i
             ELSE IF e = 0 THEN 0
             ELSE FindHdocEnd(s, e + 1, delim)

IsHdocPending(rs) == rs # <<>> /\ rs[Len(rs)].op = "<<" /\ rs[Len(rs)].hdoc = NilWord

OpName(op) ==
    IF op = <<">">> THEN ">" ELSE IF op = <<">", ">">> THEN ">>"
    ELSE IF op = <<"<">> THEN "<" ELSE "<<"

\* after the body of the here-document of the last redirection
AfterHdoc(as, ws, rs, after, body) ==
    IF ~body.ok THEN ParseFail
    ELSE [ParseFail EXCEPT !.ok = TRUE,
            !.stmt = Stmt(as, ws, [rs EXCEPT ![Len(rs)].hdoc = body.parts]),
            !.pos = after]

\* after the target r of a redirection: the rest of the statement
AfterRedirTarget(s, as, ws, rs, opname, r) ==
    IF ~r.ok \/ r.parts = <<>> THEN ParseFail
    ELSE IF opname = "<<" /\ (Len(r.parts) # 1 \/ r.parts[1].kind # "Lit") THEN ParseFail
    ELSE ParseStmt(s, r.pos, as, ws, Append(rs, Redirect(opname, r.parts, NilWord)))

\* after the value r of an assignment: the rest of the statement
AfterAssignValue(s, as, ws, rs, name, r) ==
    IF ~r.ok THEN ParseFail
    ELSE ParseStmt(s, r.pos, Append(as, Assign(name, IF r.parts = <<>> THEN NilWord ELSE r.parts)), ws, rs)

\* after the argument r: the rest of the statement
AfterWord(s, as, ws, rs, r) ==
    IF ~r.ok THEN ParseFail
    ELSE ParseStmt(s, r.pos, as, Append(ws, r.parts), rs)

\* one statement: assignments, words and redirections up to ';', newline or
\* the end; the body of a here-document follows the newline that ends the
\* statement
ParseStmt(s, i, as, ws, rs) ==
    LET k == SkipOver(s, i, Blank)
        n == SkipOver(s, k, NameChars)
    IN  IF IsHdocPending(rs) THEN
            LET delim == rs[Len(rs)].word[1].value
                h == FindHdocEnd(s, k + 1, delim)
            IN  IF k > Len(s) \/ s[k] # "\n" \/ h = 0 THEN ParseFail
                ELSE AfterHdoc(as, ws, rs, h + Len(delim),
                               ParseParts(SubSeq(s, k + 1, h - 1), 1, "hdoc", <<>>))
        ELSE IF k > Len(s) \/ s[k] \in StmtEnd THEN
            [ParseFail EXCEPT !.ok = TRUE, !.stmt = Stmt(as, ws, rs), !.pos = k]
        ELSE IF s[k] = "#" THEN
            [ParseFail EXCEPT !.ok = TRUE,
                    !.stmt = [Stmt(as, ws, rs) EXCEPT !.comments = CommentAt(s, k)],
                    !.pos = LineEnd(s, k)]
        ELSE IF s[k] \in RedirStart THEN
            LET dbl == k + 1 <= Len(s) /\ s[k + 1] = s[k]
                op == IF dbl THEN <<s[k], s[k]>> ELSE <<s[k]>>
                k2 == SkipOver(s, IF dbl THEN k + 2 ELSE k + 1, Blank)
            IN  AfterRedirTarget(s, as, ws, rs, OpName(op), ParseParts(s, k2, "word", <<>>))
        ELSE IF as = <<>> /\ ws = <<>> /\ rs = <<>> /\ n > k /\ n + 1 <= Len(s)
                /\ s[n] = "(" /\ s[n + 1] = ")" THEN
            FuncDeclFrom(s, SubSeq(s, k, n - 1), n + 2)
        ELSE IF ws = <<>> /\ n > k /\ n <= Len(s) /\ s[n] = "=" THEN
            AfterAssignValue(s, as, ws, rs, SubSeq(s, k, n - 1), ParseParts(s, n + 1, "word", <<>>))
        ELSE
            AfterWord(s, as, ws, rs, ParseParts(s, k, "word", <<>>))

\* the statement st with the comments coms before it
WithLeading(st, coms) == [st EXCEPT !.comments = coms \o st.comments]

\* the statement st with the comment at k, on its last line, after it
WithTrailing(st, s, k) == [st EXCEPT !.comments = st.comments \o CommentAt(s, k)]

\* after the statement r, which had the comments coms before it: the
\* separator, a comment on the same line, and the rest of the list
AfterStmt(s, acc, coms, r) ==
    IF ~r.ok THEN ParseFail
    ELSE IF r.stmt = EmptyStmt THEN ParseFail
    ELSE IF r.pos > Len(s) THEN
        [ParseFail EXCEPT !.ok = TRUE, !.stmts = Append(acc, WithLeading(r.stmt, coms)), !.pos = r.pos]
    ELSE IF s[r.pos] \notin StmtEnd THEN ParseFail
    ELSE LET q == SkipOver(s, r.pos + 1, Blank)
         IN  IF s[r.pos] = ";" /\ q <= Len(s) /\ s[q] = "#" THEN
                 ParseStmtList(s, LineEnd(s, q),
                               Append(acc, WithTrailing(WithLeading(r.stmt, coms), s, q)), <<>>)
             ELSE ParseStmtList(s, r.pos + 1, Append(acc, WithLeading(r.stmt, coms)), <<>>)

\* the statements from i on; coms are the comments met since the last
\* statement
ParseStmtList(s, i, acc, coms) ==
    LET k == SkipOver(s, i, Blank \cup {"\n"})
    IN  IF k > Len(s) THEN [ParseFail EXCEPT !.ok = TRUE, !.stmts = acc, !.last = coms, !.pos = k]
        ELSE IF s[k] = "#" THEN ParseStmtList(s, LineEnd(s, k), acc, coms \o CommentAt(s, k))
        ELSE AfterStmt(s, acc, coms, ParseStmt(s, k, <<>>, <<>>, <<>>))

FileOf(r) == [ok |-> r.ok, stmts |-> r.stmts, last |-> r.last]

\* syntax.NewParser().Parse: the file, or a parse error
Parse(s) == FileOf(ParseStmtList(s, 1, <<>>, <<>>))

NoFile == [ok |-> FALSE, stmts |-> <<>>, last |-> <<>>]

\* ------------------------------------------------------------------------
\* Templates, formats and their renderings
\* ------------------------------------------------------------------------

\* a template is a sequence of pieces: text, or an action that prints the
\* data field .x, bare or under one of the annotation helpers
Txt(chars) == [t |-> "text", s |-> chars, fn |-> "none"]
Act(f) == [t |-> "action", s |-> <<>>, fn |-> f]

\* a format is a sequence of pieces: text, or the verb %s
Verb == [t |-> "verb", s |-> <<>>, fn |-> "none"]

\* the verb s with the qualifier q (width, '.', precision) between % and s
VerbQ(q) == [t |-> "verb", s |-> q, fn |-> "none"]

RECURSIVE Flatten(_)
Flatten(ss) == IF ss = <<>> THEN <<>> ELSE Head(ss) \o Flatten(Tail(ss))

EchoString(in) == in

BaselineString(in) == <<"b", "a", "s", "e", "l", "i", "n", "e">>

replaceableIndicator == <<"R", "E", "P", "L", "A", "C", "E", "A", "B", "L", "E">>

RECURSIVE mutateString(_)
mutateString(in) ==
    IF in = <<>> THEN <<>>
    ELSE <<Head(in), Head(in)>> \o mutateString(Tail(in))

\* faulty variant of prefixDash: no prefix is added
prefixDash_NoDash(in) == in

prefixDash(in) == <<"-">> \o in

\* a callback passed by name: the string functions handed to the engine and
\* to DeepCopyMutateStrings
Call(f, in) ==
    CASE f = "EchoString" -> EchoString(in)
      [] f = "BaselineString" -> BaselineString(in)
      [] f = "mutateString" -> mutateString(in)
      [] f = "prefixDash" -> prefixDash(in)
      [] f = "replaceable" -> replaceableIndicator

\* faulty variant of ExecuteWithShCallback: the detection helper is applied
\* to the argument of StructuralData too
ExecuteWithShCallback_StructuralWrapped(tmpl, decorated, cb, additionalFlagsCb, d) ==
    LET wrapped == IF decorated THEN Call(cb, d) ELSE d
        piece(p) == IF p.t = "text" THEN p.s
                    ELSE IF p.fn = "AllowFlags" THEN Call(additionalFlagsCb, wrapped)
                    ELSE wrapped
    IN  Flatten([i \in 1..Len(tmpl) |-> piece(tmpl[i])])

\* one pass of the template engine.  decorated: the clone in which every
\* data reference outside StructuralData is wrapped in the detection helper,
\* which applies cb; AllowFlags applies additionalFlagsCb to its argument
\* actions that print an integer field of the data, bare or through a
\* function of the caller; d is then the decimal text of the integer
IntFuncs == {"Int", "IntSmall"}

\* faulty variant of ExecuteWithShCallback: the string function is applied
\* to integers as well
ExecuteWithShCallback_IntWrapped(tmpl, decorated, cb, additionalFlagsCb, d) ==
    LET wrapped == IF decorated THEN Call(cb, d) ELSE d
        piece(p) == IF p.t = "text" THEN p.s
                    ELSE IF p.fn = "StructuralData" THEN d
                    ELSE IF p.fn = "AllowFlags" THEN Call(additionalFlagsCb, wrapped)
                    ELSE wrapped
    IN  Flatten([i \in 1..Len(tmpl) |-> piece(tmpl[i])])

ExecuteWithShCallback(tmpl, decorated, cb, additionalFlagsCb, d) ==
    LET wrapped == IF decorated THEN Call(cb, d) ELSE d
        piece(p) == IF p.t = "text" THEN p.s
                    ELSE IF p.fn = "StructuralData" THEN d
                    ELSE IF p.fn \in IntFuncs THEN d
                    ELSE IF p.fn = "AllowFlags" THEN Call(additionalFlagsCb, wrapped)
                    ELSE wrapped
    IN  Flatten([i \in 1..Len(tmpl) |-> piece(tmpl[i])])

\* the error value the template engine returns when a function of the
\* caller's FuncMap returns an error
ExecError == "template: error calling function"

\* functions of the caller's FuncMap that return their argument, or an
\* error: nonEmpty fails on the empty string, atMost4 on a string longer
\* than four characters, not4 on a string of exactly four characters
FuncFails(fn, x) ==
    \/ fn = "nonEmpty" /\ x = <<>>
    \/ fn = "atMost4" /\ Len(x) > 4
    \/ fn = "not4" /\ Len(x) = 4
    \/ fn = "IntSmall" /\ Len(x) > 1

\* the error of one pass of the template engine, "nil" when it has none
ExecuteError(tmpl, decorated, cb, d) ==
    LET wrapped == IF decorated THEN Call(cb, d) ELSE d
        argOf(p) == IF p.fn \in IntFuncs THEN d ELSE wrapped
    IN  IF \E i \in 1..Len(tmpl) : tmpl[i].t = "action" /\ FuncFails(tmpl[i].fn, argOf(tmpl[i]))
        THEN ExecError ELSE "nil"

\* text/template's own Execute: the output is written as it is produced,
\* so an error leaves what precedes the failing action in the writer
UnsafeExecute(tmpl, d) ==
    LET fails(i) == tmpl[i].t = "action" /\ FuncFails(tmpl[i].fn, d)
        first == IF \E i \in 1..Len(tmpl) : fails(i)
                 THEN CHOOSE i \in 1..Len(tmpl) : fails(i) /\ \A j \in 1..(i - 1) : ~fails(j)
                 ELSE Len(tmpl) + 1
        piece(p) == IF p.t = "text" THEN p.s ELSE d
    IN  [err |-> IF first <= Len(tmpl) THEN ExecError ELSE "nil",
         out |-> Flatten([i \in 1..(first - 1) |-> piece(tmpl[i])])]

specialChars ==
    {"\\", "'", "\"", BQ, "$", "{", "[", "|", "&", ";", "<", ">", "(", ")", "*", "?", "!", "+", "@"}
    \cup {" ", "\t", "\r", "\n"}
    \cup {"~"}

\* faulty variant of EscapeDefaultContext: the argument is returned as it is
EscapeDefaultContext_Unescaped(in) == in

\* faulty variant of EscapeDefaultContext: a backslash of the argument is
\* copied without a backslash before it
RECURSIVE EscapeDefaultContext_BackslashCopied(_)
EscapeDefaultContext_BackslashCopied(in) ==
    IF in = <<>> THEN <<>>
    ELSE (IF Head(in) \in specialChars \ {"\\"} THEN <<"\\">> ELSE <<>>)
         \o <<Head(in)>> \o EscapeDefaultContext_BackslashCopied(Tail(in))

RECURSIVE EscapeDefaultContext(_)
EscapeDefaultContext(in) ==
    IF in = <<>> THEN <<>>
    ELSE (IF Head(in) \in specialChars THEN <<"\\">> ELSE <<>>)
         \o <<Head(in)>> \o EscapeDefaultContext(Tail(in))

Digits == {"0", "1", "2", "3", "4", "5", "6", "7", "8", "9"}
DigitValue(c) == CHOOSE n \in 0..9 : <<"0", "1", "2", "3", "4", "5", "6", "7", "8", "9">>[n + 1] = c

\* the number written by the digits ds; none is 0
RECURSIVE Atoi(_)
Atoi(ds) ==
    IF ds = <<>> THEN 0
    ELSE 10 * Atoi(SubSeq(ds, 1, Len(ds) - 1)) + DigitValue(ds[Len(ds)])

\* the place of the '.' in the qualifier q, 0 when it has none
DotAt(q) == IF \E i \in 1..Len(q) : q[i] = "." THEN CHOOSE i \in 1..Len(q) : q[i] = "." ELSE 0

\* the string x under %s with the qualifier q: cut to the precision, then
\* padded on the left to the width
fmtS(q, x) ==
    LET dot == DotAt(q)
        wid == Atoi(IF dot = 0 THEN q ELSE SubSeq(q, 1, dot - 1))
        prec == IF dot = 0 THEN Len(x) ELSE Atoi(SubSeq(q, dot + 1, Len(q)))
        cut == IF prec < Len(x) THEN SubSeq(x, 1, prec) ELSE x
    IN  [i \in 1..(wid - Len(cut)) |-> " "] \o cut

\* fmt.Sprintf with one string operand per verb
RECURSIVE FmtSprintf(_, _)
FmtSprintf(format, a) ==
    IF format = <<>> THEN <<>>
    ELSE IF Head(format).t = "text" THEN Head(format).s \o FmtSprintf(Tail(format), a)
    ELSE IF a = <<>> THEN <<"%", "!", "s">> \o FmtSprintf(Tail(format), a)
    ELSE fmtS(Head(format).s, Head(a)) \o FmtSprintf(Tail(format), Tail(a))

\* the format as the string the caller wrote
FormatString(format) ==
    Flatten([i \in 1..Len(format) |->
                IF format[i].t = "text" THEN format[i].s
                ELSE <<"%">> \o format[i].s \o <<"s">>])

\* the pieces fmt reads in the string f from i on; txt is the text read
\* since the last verb
RECURSIVE ParseFormat(_, _, _)
ParseFormat(f, i, txt) ==
    IF i > Len(f) THEN (IF txt = <<>> THEN <<>> ELSE <<Txt(txt)>>)
    ELSE IF f[i] = "%" /\ SkipOver(f, i + 1, Digits \cup {"."}) <= Len(f) THEN
        (IF txt = <<>> THEN <<>> ELSE <<Txt(txt)>>)
        \o <<VerbQ(SubSeq(f, i + 1, SkipOver(f, i + 1, Digits \cup {"."}) - 1))>>
        \o ParseFormat(f, SkipOver(f, i + 1, Digits \cup {"."}) + 1, <<>>)
    ELSE ParseFormat(f, i + 1, Append(txt, f[i]))

\* truncationSpecifierPattern, ([^%]|^)%([+-0 #]*)(\d*\.\d*)(s|v): the class
\* of its second group, where +-0 is the range from '+' to '0'
flagClass == {"+", ",", "-", ".", "/", "0", " ", "#"}

\* the third and fourth group from j on: the place of the verb letter, 0
\* when they do not match there
precisionVerbAt(f, j) ==
    LET k == SkipOver(f, j, Digits)
        m == SkipOver(f, k + 1, Digits)
    IN  IF k <= Len(f) /\ f[k] = "." /\ m <= Len(f) /\ f[m] \in {"s", "v"} THEN m ELSE 0

\* the pattern from the '%' at p on: the second group takes the longest run
\* of its class that lets the rest match
matchSpecifier(f, p) ==
    LET starts == {j \in (p + 1)..(Len(f) + 1) :
                      /\ \A x \in (p + 1)..(j - 1) : f[x] \in flagClass
                      /\ precisionVerbAt(f, j) # 0}
        j == CHOOSE x \in starts : \A y \in starts : y <= x
    IN  IF starts = {} THEN [ok |-> FALSE, flags |-> <<>>, verb |-> "", next |-> 0]
        ELSE [ok |-> TRUE, flags |-> SubSeq(f, p + 1, j - 1),
              verb |-> f[precisionVerbAt(f, j)], next |-> precisionVerbAt(f, j) + 1]

\* truncationSpecifierPattern.ReplaceAll(format, "${1}%${2}${4}") from i on:
\* the matches are taken from left to right and do not overlap, and a match
\* begins with the character before its '%' unless the '%' opens the format
RECURSIVE ReplaceAllTruncation(_, _)
ReplaceAllTruncation(f, i) ==
    IF i > Len(f) THEN <<>>
    ELSE IF f[i] # "%" /\ i < Len(f) /\ f[i + 1] = "%" /\ matchSpecifier(f, i + 1).ok THEN
        <<f[i], "%">> \o matchSpecifier(f, i + 1).flags \o <<matchSpecifier(f, i + 1).verb>>
        \o ReplaceAllTruncation(f, matchSpecifier(f, i + 1).next)
    ELSE IF i = 1 /\ f[i] = "%" /\ matchSpecifier(f, i).ok THEN
        <<"%">> \o matchSpecifier(f, i).flags \o <<matchSpecifier(f, i).verb>>
        \o ReplaceAllTruncation(f, matchSpecifier(f, i).next)
    ELSE <<f[i]>> \o ReplaceAllTruncation(f, i + 1)

\* common.DeepCopyMutateStrings on a slice of strings
DeepCopyMutateStrings(a, f) == [i \in 1..Len(a) |-> Call(f, a[i])]

\* ------------------------------------------------------------------------
\* Shell-template judge (three renderings).  A comparison yields "T"
\* (true), "F" (false) or "P" (it panics: index out of range).
\* ------------------------------------------------------------------------

matchExactly == "matchExactly"
forbidFlagInjection == "forbidFlagInjection"
justStructure == "justStructure"

GlobChars == <<"?", "*", "+", "@", "!">>

\* faulty variant of flagInjected: the test of the baseline is inverted
flagInjected3_Inverted(a, b, c) ==
    HasPrefix(a, <<"-">>) /\ (HasPrefix(b, <<"-">>) \/ HasPrefix(c, <<"-">>))

flagInjected3(a, b, c) ==
    ~HasPrefix(a, <<"-">>) /\ (HasPrefix(b, <<"-">>) \/ HasPrefix(c, <<"-">>))

verifyStrings3(a, b, c, ctx) ==
    IF ctx = matchExactly THEN ~(b # a \/ c # a)
    ELSE IF ctx = forbidFlagInjection THEN ~flagInjected3(a, b, c)
    ELSE TRUE

\* faulty variant of literalInjection: only a loss of special characters is
\* detected
literalInjection3_FewerOnly(a, b, c) ==
    \E k \in 1..Len(GlobChars) :
        LET count == Count(a, GlobChars[k])
        IN  Count(b, GlobChars[k]) < count \/ Count(c, GlobChars[k]) < count

literalInjection3(a, b, c) ==
    \E k \in 1..Len(GlobChars) :
        LET count == Count(a, GlobChars[k])
        IN  Count(b, GlobChars[k]) # count \/ Count(c, GlobChars[k]) # count

RECURSIVE wordsMatch3(_, _, _, _)
RECURSIVE wordPartsMatch3(_, _, _, _)
RECURSIVE statementsArrayMatch3(_, _, _)
RECURSIVE commandsMatch3(_, _, _)

RECURSIVE wordsLoop3(_, _, _, _, _)
wordsLoop3(a, b, c, ctx, i) ==
    IF i > Len(a) THEN "T"
    ELSE LET r == wordPartsMatch3(a[i], b[i], c[i], ctx)
         IN  IF r # "T" THEN r ELSE wordsLoop3(a, b, c, ctx, i + 1)

wordsMatch3(a, b, c, ctx) ==
    IF Len(b) # Len(a) \/ Len(c) # Len(a) THEN "F"
    ELSE wordsLoop3(a, b, c, ctx, 1)

\* a.Exp.Word.Parts, b.Exp.Word.Parts, c.Exp.Word.Parts: a nil Word is
\* dereferenced
paramExprMatch3(a, b, c) ==
    IF b.value # a.value \/ c.value # a.value THEN "F"
    ELSE IF (b.exp = "nil") # (a.exp = "nil") \/ (c.exp = "nil") # (a.exp = "nil") THEN "F"
    ELSE IF a.exp = "nil" THEN "T"
    ELSE IF "nilword" \in {a.exp, b.exp, c.exp} THEN "P"
    ELSE wordsMatch3(a.parts, b.parts, c.parts, matchExactly)

cmdSubstMatch3(a, b, c) ==
    IF b.backquotes # a.backquotes \/ c.backquotes # a.backquotes THEN "F"
    ELSE statementsArrayMatch3(a.stmts, b.stmts, c.stmts)

wordPartsMatch3(a, b, c, ctx) ==
    IF b.kind # a.kind \/ c.kind # a.kind THEN "F"
    ELSE IF a.kind = "Lit" THEN
        (IF ~verifyStrings3(a.value, b.value, c.value, ctx) THEN "F"
         ELSE IF literalInjection3(a.value, b.value, c.value) THEN "F"
         ELSE "T")
    ELSE IF a.kind = "SglQuoted" THEN
        (IF ~verifyStrings3(a.value, b.value, c.value, ctx) THEN "F" ELSE "T")
    ELSE IF a.kind = "DblQuoted" THEN wordsMatch3(a.parts, b.parts, c.parts, ctx)
    ELSE IF a.kind = "ParamExp" THEN paramExprMatch3(a, b, c)
    ELSE IF a.kind = "CmdSubst" THEN cmdSubstMatch3(a, b, c)
    ELSE "T"

assignMatch3(a, b, c) ==
    IF b.name # a.name \/ c.name # a.name THEN "F"
    ELSE IF (b.value = NilWord) # (a.value = NilWord) \/ (c.value = NilWord) # (a.value = NilWord) THEN "F"
    ELSE IF a.value # NilWord THEN wordsMatch3(a.value, b.value, c.value, justStructure)
    ELSE "T"

RECURSIVE assignLoop3(_, _, _, _)
assignLoop3(a, b, c, i) ==
    IF i > Len(a) THEN "T"
    ELSE LET r == assignMatch3(a[i], b[i], c[i])
         IN  IF r # "T" THEN r ELSE assignLoop3(a, b, c, i + 1)

assignArrayMatch3(a, b, c) ==
    IF Len(b) # Len(a) \/ Len(c) # Len(a) THEN "F" ELSE assignLoop3(a, b, c, 1)

\* the loop over the arguments of a call expression: the first word is the
\* command name, compared exactly; the others are checked for flags
RECURSIVE argsLoop3(_, _, _, _)
argsLoop3(a, b, c, i) ==
    IF i > Len(a) THEN "T"
    ELSE LET context == IF i = 1 THEN matchExactly ELSE forbidFlagInjection
             r == wordsMatch3(a[i], b[i], c[i], context)
         IN  IF r # "T" THEN r ELSE argsLoop3(a, b, c, i + 1)

\* case *syntax.FuncDecl; Body is a statement without redirections whose
\* command is a block
funcDeclMatch3(a, b, c) ==
    IF b.rsrvWord # a.rsrvWord \/ c.rsrvWord # a.rsrvWord THEN "F"
    ELSE IF b.name = NilName \/ c.name = NilName \/ a.name = NilName THEN "P"
    ELSE IF b.name # a.name \/ c.name # a.name THEN "F"
    ELSE statementsArrayMatch3(a.body, b.body, c.body)

commandsMatch3(a, b, c) ==
    IF b.kind # a.kind \/ c.kind # a.kind THEN "F"
    ELSE IF a.kind = "CallExpr" THEN
        (IF assignArrayMatch3(a.assigns, b.assigns, c.assigns) # "T" THEN
             assignArrayMatch3(a.assigns, b.assigns, c.assigns)
         ELSE IF Len(b.args) # Len(a.args) \/ Len(c.args) # Len(a.args) THEN "F"
         ELSE argsLoop3(a.args, b.args, c.args, 1))
    ELSE IF a.kind = "FuncDecl" THEN funcDeclMatch3(a, b, c)
    ELSE "T"

\* faulty variant of redirectsMatch: the target and the here-document are
\* compared as arguments are, not exactly
redirectsMatch3_AsArguments(a, b, c) ==
    IF b.op # a.op \/ c.op # a.op THEN "F"
    ELSE IF (b.word = NilWord) # (a.word = NilWord) \/ (c.word = NilWord) # (a.word = NilWord) THEN "F"
    ELSE IF a.word # NilWord /\ wordsMatch3(a.word, b.word, c.word, forbidFlagInjection) # "T" THEN
        wordsMatch3(a.word, b.word, c.word, forbidFlagInjection)
    ELSE IF (b.hdoc = NilWord) # (a.hdoc = NilWord) \/ (c.hdoc = NilWord) # (a.hdoc = NilWord) THEN "F"
    ELSE IF a.hdoc # NilWord THEN wordsMatch3(a.hdoc, b.hdoc, c.hdoc, forbidFlagInjection)
    ELSE "T"

redirectsMatch3(a, b, c) ==
    IF b.op # a.op \/ c.op # a.op THEN "F"
    ELSE IF (b.word = NilWord) # (a.word = NilWord) \/ (c.word = NilWord) # (a.word = NilWord) THEN "F"
    ELSE IF a.word # NilWord /\ wordsMatch3(a.word, b.word, c.word, matchExactly) # "T" THEN
        wordsMatch3(a.word, b.word, c.word, matchExactly)
    ELSE IF (b.hdoc = NilWord) # (a.hdoc = NilWord) \/ (c.hdoc = NilWord) # (a.hdoc = NilWord) THEN "F"
    ELSE IF a.hdoc # NilWord THEN wordsMatch3(a.hdoc, b.hdoc, c.hdoc, matchExactly)
    ELSE "T"

RECURSIVE redirectsArrayMatch3(_, _, _)
redirectsArrayMatch3(a, b, c) ==
    IF a = <<>> THEN "T"
    ELSE IF b = <<>> \/ c = <<>> THEN "P"
    ELSE LET r == redirectsMatch3(Head(a), Head(b), Head(c))
         IN  IF r # "T" THEN r ELSE redirectsArrayMatch3(Tail(a), Tail(b), Tail(c))

statementsMatch3(a, b, c) ==
    LET r == redirectsArrayMatch3(a.redirs, b.redirs, c.redirs)
    IN  IF r # "T" THEN r
        ELSE IF (b.cmd = NilCmd) # (a.cmd = NilCmd) \/ (c.cmd = NilCmd) # (a.cmd = NilCmd) THEN "F"
        ELSE IF a.cmd # NilCmd THEN commandsMatch3(a.cmd, b.cmd, c.cmd)
        ELSE "T"

statementsArrayMatch3(a, b, c) ==
    IF a = <<>> THEN "T"
    ELSE IF b = <<>> \/ c = <<>> THEN "P"
    ELSE LET r == statementsMatch3(Head(a), Head(b), Head(c))
         IN  IF r # "T" THEN r ELSE statementsArrayMatch3(Tail(a), Tail(b), Tail(c))

scriptsMatch3(a, b, c) ==
    IF Len(b.stmts) # Len(a.stmts) \/ Len(c.stmts) # Len(a.stmts) THEN "F"
    ELSE statementsArrayMatch3(a.stmts, b.stmts, c.stmts)

\* ------------------------------------------------------------------------
\* Shell-printf judge (two renderings).  A comparison context is a set of
\* flags: matchStructure is the empty set.
\* ------------------------------------------------------------------------

matchStructure == {}
forbidFlagInjectionBit == {"forbidFlagInjection"}
literal == {"literal"}

\* position of the first occurrence of tok in s at or after i (0: none)
RECURSIVE IndexFrom(_, _, _)
IndexFrom(s, tok, i) ==
    IF i + Len(tok) - 1 > Len(s) THEN 0
    ELSE IF SubSeq(s, i, i + Len(tok) - 1) = tok THEN i
    ELSE IndexFrom(s, tok, i + 1)

\* the pattern "(?s)^" + Replace(QuoteMeta(a), placeholder, "(.*)") + "$" as
\* the list of the literal stretches of a between the placeholders
RECURSIVE PatternOf(_)
PatternOf(a) ==
    LET k == IndexFrom(a, replaceableIndicator, 1)
    IN  IF k = 0 THEN <<a>>
        ELSE <<SubSeq(a, 1, k - 1)>> \o PatternOf(Tail_(a, k + Len(replaceableIndicator)))

\* regexp leftmost-first matching of b against the pattern: every (.*)
\* takes the longest text that lets the rest match; the result is the list
\* of the captured groups
RECURSIVE FindStringSubmatch(_, _)
RECURSIVE TryCapture(_, _, _)
TryCapture(pat, rest, n) ==
    LET sub == FindStringSubmatch(Tail(pat), Tail_(rest, n + 1))
    IN  IF sub.ok THEN [ok |-> TRUE, groups |-> <<SubSeq(rest, 1, n)>> \o sub.groups]
        ELSE IF n = 0 THEN [ok |-> FALSE, groups |-> <<>>]
        ELSE TryCapture(pat, rest, n - 1)

FindStringSubmatch(pat, b) ==
    IF ~HasPrefix(b, Head(pat)) THEN [ok |-> FALSE, groups |-> <<>>]
    ELSE LET rest == Tail_(b, Len(Head(pat)) + 1)
         IN  IF Len(pat) = 1 THEN [ok |-> rest = <<>>, groups |-> <<>>]
             ELSE TryCapture(pat, rest, Len(rest))

flagInjected2(a, b) == ~HasPrefix(a, <<"-">>) /\ HasPrefix(b, <<"-">>)

literalSpecials == {"?", "*", "+", "@", "!"}

\* the scan of literalInjection from position i with the flag escaped
\* faulty variant of the scan: a backslash that ends the text is not reported
RECURSIVE literalInjectionFrom_NoTrailing(_, _, _)
literalInjectionFrom_NoTrailing(a, i, escaped) ==
    IF i > Len(a) THEN FALSE
    ELSE IF ~escaped THEN
        (IF a[i] = "\\" THEN literalInjectionFrom_NoTrailing(a, i + 1, TRUE)
         ELSE IF a[i] \in literalSpecials THEN TRUE
         ELSE literalInjectionFrom_NoTrailing(a, i + 1, escaped))
    ELSE literalInjectionFrom_NoTrailing(a, i + 1, FALSE)

RECURSIVE literalInjectionFrom(_, _, _)
literalInjectionFrom(a, i, escaped) ==
    IF i > Len(a) THEN escaped
    ELSE IF ~escaped THEN
        (IF a[i] = "\\" THEN literalInjectionFrom(a, i + 1, TRUE)
         ELSE IF a[i] \in literalSpecials THEN TRUE
         ELSE literalInjectionFrom(a, i + 1, escaped))
    ELSE literalInjectionFrom(a, i + 1, FALSE)

literalInjection2(a) == literalInjectionFrom(a, 1, FALSE)

verifyStrings2(a, b, ctx) ==
    LET m == FindStringSubmatch(PatternOf(a), b)
        insertedContent == m.groups
    IN  IF ~m.ok THEN FALSE
        ELSE IF forbidFlagInjectionBit \subseteq ctx /\ flagInjected2(a, b) THEN FALSE
        ELSE IF literal \subseteq ctx
                /\ \E g \in 1..Len(insertedContent) : literalInjection2(insertedContent[g]) THEN FALSE
        ELSE TRUE

RECURSIVE wordsMatch2(_, _, _)
RECURSIVE wordPartsMatch2(_, _, _)
RECURSIVE statementsArrayMatch2(_, _)

RECURSIVE wordsLoop2(_, _, _, _)
wordsLoop2(a, b, ctx, i) ==
    IF i > Len(a) THEN "T"
    ELSE LET r == wordPartsMatch2(a[i], b[i], ctx)
         IN  IF r # "T" THEN r ELSE wordsLoop2(a, b, ctx, i + 1)

wordsMatch2(a, b, ctx) ==
    IF Len(b) # Len(a) THEN "F" ELSE wordsLoop2(a, b, ctx, 1)

\* a.Exp.Word.Parts, b.Exp.Word.Parts: a nil Word is dereferenced
paramExprMatch2(a, b) ==
    IF b.value # a.value THEN "F"
    ELSE IF (b.exp = "nil") # (a.exp = "nil") THEN "F"
    ELSE IF a.exp = "nil" THEN "T"
    ELSE IF "nilword" \in {a.exp, b.exp} THEN "P"
    ELSE wordsMatch2(a.parts, b.parts, matchStructure)

\* faulty variant of commentsArrayMatch: the comments are not compared
commentsArrayMatch2_Ignored(a, b) == "T"

RECURSIVE commentsLoop2(_, _, _)
commentsLoop2(a, b, i) ==
    IF i > Len(a) THEN "T"
    ELSE IF ~verifyStrings2(a[i], b[i], matchStructure) THEN "F"
    ELSE commentsLoop2(a, b, i + 1)

commentsArrayMatch2(a, b) ==
    IF Len(b) # Len(a) THEN "F" ELSE commentsLoop2(a, b, 1)

\* the comments a and b are compared once what precedes them, r, has matched
thenComments2(r, a, b) == IF r # "T" THEN r ELSE commentsArrayMatch2(a, b)

cmdSubstMatch2(a, b) ==
    IF b.backquotes # a.backquotes THEN "F"
    ELSE thenComments2(statementsArrayMatch2(a.stmts, b.stmts), a.last, b.last)

\* faulty variant of wordPartsMatch: the kind of the requested part is not
\* compared with the kind of the baseline part
wordPartsMatch2_NoKindCheck(a, b, ctx) ==
    IF a.kind = "Lit" THEN
        (IF ~verifyStrings2(a.value, b.value, ctx \cup literal) THEN "F" ELSE "T")
    ELSE IF a.kind = "SglQuoted" THEN
        (IF ~verifyStrings2(a.value, b.value, ctx) THEN "F" ELSE "T")
    ELSE IF a.kind = "DblQuoted" THEN wordsMatch2(a.parts, b.parts, ctx)
    ELSE IF a.kind = "ParamExp" THEN paramExprMatch2(a, b)
    ELSE IF a.kind = "CmdSubst" THEN cmdSubstMatch2(a, b)
    ELSE "T"

wordPartsMatch2(a, b, ctx) ==
    IF b.kind # a.kind THEN "F"
    ELSE IF a.kind = "Lit" THEN
        (IF ~verifyStrings2(a.value, b.value, ctx \cup literal) THEN "F" ELSE "T")
    ELSE IF a.kind = "SglQuoted" THEN
        (IF ~verifyStrings2(a.value, b.value, ctx) THEN "F" ELSE "T")
    ELSE IF a.kind = "DblQuoted" THEN wordsMatch2(a.parts, b.parts, ctx)
    ELSE IF a.kind = "ParamExp" THEN paramExprMatch2(a, b)
    ELSE IF a.kind = "CmdSubst" THEN cmdSubstMatch2(a, b)
    ELSE "T"

assignMatch2(a, b) ==
    IF (b.name = <<>>) # (a.name = <<>>) THEN "F"
    ELSE IF a.name # <<>> /\ ~verifyStrings2(a.name, b.name, matchStructure) THEN "F"
    ELSE IF (b.value = NilWord) # (a.value = NilWord) THEN "F"
    ELSE IF a.value # NilWord THEN wordsMatch2(a.value, b.value, matchStructure)
    ELSE "T"

RECURSIVE assignLoop2(_, _, _)
assignLoop2(a, b, i) ==
    IF i > Len(a) THEN "T"
    ELSE LET r == assignMatch2(a[i], b[i])
         IN  IF r # "T" THEN r ELSE assignLoop2(a, b, i + 1)

assignArrayMatch2(a, b) ==
    IF Len(b) # Len(a) THEN "F" ELSE assignLoop2(a, b, 1)

\* faulty variant of the loop over the arguments: the command name is
\* checked for flags as the other arguments are
RECURSIVE argsLoop2_FlagCheckAll(_, _, _)
argsLoop2_FlagCheckAll(a, b, i) ==
    IF i > Len(a) THEN "T"
    ELSE LET r == wordsMatch2(a[i], b[i], forbidFlagInjectionBit)
         IN  IF r # "T" THEN r ELSE argsLoop2_FlagCheckAll(a, b, i + 1)

RECURSIVE argsLoop2(_, _, _)
argsLoop2(a, b, i) ==
    IF i > Len(a) THEN "T"
    ELSE LET context == IF i = 1 THEN matchStructure ELSE forbidFlagInjectionBit
             r == wordsMatch2(a[i], b[i], context)
         IN  IF r # "T" THEN r ELSE argsLoop2(a, b, i + 1)

\* case *syntax.FuncDecl: the test of the names is
\* (cmd.Name == nil) != (b.Name != nil); Body is a statement without
\* redirections whose command is a block
funcDeclMatch2(a, b) ==
    IF b.rsrvWord # a.rsrvWord THEN "F"
    ELSE IF (a.name = NilName) # (b.name # NilName) THEN "F"
    ELSE IF a.name # NilName /\ b.name = NilName THEN "P"
    ELSE IF a.name # NilName /\ ~verifyStrings2(a.name, b.name, matchStructure) THEN "F"
    ELSE thenComments2(statementsArrayMatch2(a.body, b.body), a.last, b.last)

\* faulty variant of commandsMatch: the numbers of arguments are not compared
commandsMatch2_NoArgCount(a, b) ==
    IF b.kind # a.kind THEN "F"
    ELSE IF a.kind = "CallExpr" THEN
        (IF assignArrayMatch2(a.assigns, b.assigns) # "T" THEN assignArrayMatch2(a.assigns, b.assigns)
         ELSE IF Len(b.args) < Len(a.args) THEN "F"
         ELSE argsLoop2(a.args, b.args, 1))
    ELSE IF a.kind = "FuncDecl" THEN funcDeclMatch2(a, b)
    ELSE "T"

commandsMatch2(a, b) ==
    IF b.kind # a.kind THEN "F"
    ELSE IF a.kind = "CallExpr" THEN
        (IF assignArrayMatch2(a.assigns, b.assigns) # "T" THEN assignArrayMatch2(a.assigns, b.assigns)
         ELSE IF Len(b.args) # Len(a.args) THEN "F"
         ELSE argsLoop2(a.args, b.args, 1))
    ELSE IF a.kind = "FuncDecl" THEN funcDeclMatch2(a, b)
    ELSE "T"

redirectsMatch2(a, b) ==
    IF b.op # a.op THEN "F"
    ELSE IF (b.word = NilWord) # (a.word = NilWord) THEN "F"
    ELSE IF a.word # NilWord /\ wordsMatch2(a.word, b.word, matchStructure) # "T" THEN
        wordsMatch2(a.word, b.word, matchStructure)
    ELSE IF (b.hdoc = NilWord) # (a.hdoc = NilWord) THEN "F"
    ELSE IF a.hdoc # NilWord THEN wordsMatch2(a.hdoc, b.hdoc, matchStructure)
    ELSE "T"

RECURSIVE redirectsLoop2(_, _, _)
redirectsLoop2(a, b, i) ==
    IF i > Len(a) THEN "T"
    ELSE LET r == redirectsMatch2(a[i], b[i])
         IN  IF r # "T" THEN r ELSE redirectsLoop2(a, b, i + 1)

redirectsArrayMatch2(a, b) ==
    IF Len(b) # Len(a) THEN "F" ELSE redirectsLoop2(a, b, 1)

statementsMatch2(a, b) ==
    LET r == redirectsArrayMatch2(a.redirs, b.redirs)
    IN  IF r # "T" THEN r
        ELSE IF (b.cmd = NilCmd) # (a.cmd = NilCmd) THEN "F"
        ELSE thenComments2(IF a.cmd # NilCmd THEN commandsMatch2(a.cmd, b.cmd) ELSE "T",
                           a.comments, b.comments)

RECURSIVE statementsLoop2(_, _, _)
statementsLoop2(a, b, i) ==
    IF i > Len(a) THEN "T"
    ELSE LET r == statementsMatch2(a[i], b[i])
         IN  IF r # "T" THEN r ELSE statementsLoop2(a, b, i + 1)

statementsArrayMatch2(a, b) ==
    IF Len(b) # Len(a) THEN "F" ELSE statementsLoop2(a, b, 1)

scriptsMatch2(a, b) ==
    thenComments2(statementsArrayMatch2(a.stmts, b.stmts), a.last, b.last)

\* ------------------------------------------------------------------------
\* YAML parser (gopkg.in/yaml.v3), restricted to what the templates below
\* and their data can spell: documents separated by a "---" line, flow
\* mappings and sequences, plain and quoted scalars, anchors and aliases.
\* ------------------------------------------------------------------------

ScalarNode(v) ==
    [kind |-> "scalar", value |-> v, anchor |-> <<>>, keys |-> <<>>, content |-> <<>>]
AliasNode(n) ==
    [kind |-> "alias", value |-> n, anchor |-> <<>>, keys |-> <<>>, content |-> <<>>]
SequenceNode(items) ==
    [kind |-> "sequence", value |-> <<>>, anchor |-> <<>>, keys |-> <<>>, content |-> items]
MappingNode(ks, vs) ==
    [kind |-> "mapping", value |-> <<>>, anchor |-> <<>>, keys |-> ks, content |-> vs]

YamlFail == [ok |-> FALSE, node |-> ScalarNode(<<>>), pos |-> 0]
YamlAt(n, i) == [ok |-> TRUE, node |-> n, pos |-> i]

FlowIndicators == {",", "[", "]", "{", "}"}
YamlBlank == {" ", "\n"}

\* end (exclusive) of the plain scalar that holds position i, inside a flow
\* collection
RECURSIVE PlainEnd(_, _)
PlainEnd(s, i) ==
    IF i > Len(s) THEN i
    ELSE IF s[i] \in FlowIndicators THEN i
    ELSE IF s[i] = ":" /\ (i = Len(s) \/ s[i + 1] \in YamlBlank \cup FlowIndicators) THEN i
    ELSE PlainEnd(s, i + 1)

\* end (exclusive) of the anchor or alias name that holds position i
RECURSIVE NameEnd(_, _)
NameEnd(s, i) ==
    IF i > Len(s) \/ s[i] \in YamlBlank \cup FlowIndicators THEN i ELSE NameEnd(s, i + 1)

\* position of the next q at or after i, 0 when there is none
RECURSIVE QuoteEnd(_, _, _)
QuoteEnd(s, i, q) ==
    IF i > Len(s) THEN 0 ELSE IF s[i] = q THEN i ELSE QuoteEnd(s, i + 1, q)

RECURSIVE TrimRight(_)
TrimRight(v) ==
    IF v # <<>> /\ v[Len(v)] \in YamlBlank THEN TrimRight(SubSeq(v, 1, Len(v) - 1)) ELSE v

\* the node r with the anchor n
WithAnchor(n, r) == IF ~r.ok \/ n = <<>> THEN YamlFail ELSE [r EXCEPT !.node.anchor = n]

RECURSIVE YamlNode(_, _)
RECURSIVE YamlPairs(_, _, _, _)
RECURSIVE YamlItems(_, _, _)

\* after the value r of a pair: ',' and the next pair, or '}'
AfterValue(s, ks, vs, r) ==
    IF ~r.ok THEN YamlFail
    ELSE LET p == SkipOver(s, r.pos, YamlBlank)
         IN  IF p > Len(s) THEN YamlFail
             ELSE IF s[p] = "," THEN YamlPairs(s, p + 1, ks, Append(vs, r.node))
             ELSE IF s[p] = "}" THEN YamlAt(MappingNode(ks, Append(vs, r.node)), p + 1)
             ELSE YamlFail

\* after the key r of a pair: ':' and the value, or no value
AfterKey(s, ks, vs, r) ==
    IF ~r.ok THEN YamlFail
    ELSE LET p == SkipOver(s, r.pos, YamlBlank)
         IN  IF p > Len(s) THEN YamlFail
             ELSE IF s[p] = ":" THEN AfterValue(s, Append(ks, r.node), vs, YamlNode(s, p + 1))
             ELSE IF s[p] \in {",", "}"} THEN
                 AfterValue(s, Append(ks, r.node), vs, YamlAt(ScalarNode(<<>>), p))
             ELSE YamlFail

\* the pairs of a flow mapping from i on
YamlPairs(s, i, ks, vs) ==
    LET k == SkipOver(s, i, YamlBlank)
    IN  IF k > Len(s) THEN YamlFail
        ELSE IF s[k] = "}" THEN YamlAt(MappingNode(ks, vs), k + 1)
        ELSE IF s[k] = "," THEN YamlFail
        ELSE AfterKey(s, ks, vs, YamlNode(s, k))

\* after the item r of a flow sequence: ',' and the next item, or ']'
AfterItem(s, items, r) ==
    IF ~r.ok THEN YamlFail
    ELSE LET p == SkipOver(s, r.pos, YamlBlank)
         IN  IF p > Len(s) THEN YamlFail
             ELSE IF s[p] = "," THEN YamlItems(s, p + 1, Append(items, r.node))
             ELSE IF s[p] = "]" THEN YamlAt(SequenceNode(Append(items, r.node)), p + 1)
             ELSE YamlFail

\* the items of a flow sequence from i on
YamlItems(s, i, items) ==
    LET k == SkipOver(s, i, YamlBlank)
    IN  IF k > Len(s) THEN YamlFail
        ELSE IF s[k] = "]" THEN YamlAt(SequenceNode(items), k + 1)
        ELSE IF s[k] \in {",", ":"} THEN YamlFail
        ELSE AfterItem(s, items, YamlNode(s, k))

\* the node that begins at or after i; an empty place is the null scalar
YamlNode(s, i) ==
    LET k == SkipOver(s, i, YamlBlank)
    IN  IF k > Len(s) THEN YamlAt(ScalarNode(<<>>), k)
        ELSE IF s[k] = "{" THEN YamlPairs(s, k + 1, <<>>, <<>>)
        ELSE IF s[k] = "[" THEN YamlItems(s, k + 1, <<>>)
        ELSE IF s[k] = "*" THEN
            (IF NameEnd(s, k + 1) = k + 1 THEN YamlFail
             ELSE YamlAt(AliasNode(SubSeq(s, k + 1, NameEnd(s, k + 1) - 1)), NameEnd(s, k + 1)))
        ELSE IF s[k] = "&" THEN
            WithAnchor(SubSeq(s, k + 1, NameEnd(s, k + 1) - 1), YamlNode(s, NameEnd(s, k + 1)))
        ELSE IF s[k] \in {"'", "\""} THEN
            (IF QuoteEnd(s, k + 1, s[k]) = 0 THEN YamlFail
             ELSE YamlAt(ScalarNode(SubSeq(s, k + 1, QuoteEnd(s, k + 1, s[k]) - 1)),
                         QuoteEnd(s, k + 1, s[k]) + 1))
        ELSE IF s[k] \in {",", "}", "]", ":"} THEN YamlAt(ScalarNode(<<>>), k)
        ELSE YamlAt(ScalarNode(TrimRight(SubSeq(s, k, PlainEnd(s, k) - 1))), PlainEnd(s, k))

DocumentSeparator == <<"\n", "-", "-", "-", "\n">>

\* the texts of the documents of s
RECURSIVE SplitDocuments(_)
SplitDocuments(s) ==
    LET k == IndexFrom(s, DocumentSeparator, 1)
    IN  IF k = 0 THEN <<s>>
        ELSE <<SubSeq(s, 1, k - 1)>> \o SplitDocuments(Tail_(s, k + Len(DocumentSeparator)))

RECURSIVE AnchorNames(_)
AnchorNames(n) ==
    (IF n.anchor = <<>> THEN {} ELSE {n.anchor})
    \cup UNION {AnchorNames(n.keys[i]) : i \in 1..Len(n.keys)}
    \cup UNION {AnchorNames(n.content[i]) : i \in 1..Len(n.content)}

RECURSIVE AliasNames(_)
AliasNames(n) ==
    (IF n.kind = "alias" THEN {n.value} ELSE {})
    \cup UNION {AliasNames(n.keys[i]) : i \in 1..Len(n.keys)}
    \cup UNION {AliasNames(n.content[i]) : i \in 1..Len(n.content)}

\* every mapping below n has scalar keys only, and no key twice
RECURSIVE KeysValid(_)
KeysValid(n) ==
    /\ \A i \in 1..Len(n.keys) : n.keys[i].kind = "scalar"
    /\ \A i, j \in 1..Len(n.keys) : n.keys[i].value = n.keys[j].value => i = j
    /\ \A i \in 1..Len(n.content) : KeysValid(n.content[i])

\* one document: a node, then nothing; its aliases name anchors it has
DocumentOf(text) ==
    LET r == YamlNode(text, 1)
    IN  [ok |-> /\ r.ok
                /\ SkipOver(text, r.pos, YamlBlank) > Len(text)
                /\ AliasNames(r.node) \subseteq AnchorNames(r.node)
                /\ KeysValid(r.node),
         node |-> r.node]

NoYaml == [ok |-> FALSE, docs |-> <<>>]

\* the document stream of a rendering, or the failure to read one
unmarshalYaml(s) ==
    LET texts == SplitDocuments(s)
        ds == [i \in 1..Len(texts) |-> DocumentOf(texts[i])]
    IN  IF \A i \in 1..Len(ds) : ds[i].ok
        THEN [ok |-> TRUE, docs |-> [i \in 1..Len(ds) |-> ds[i].node]]
        ELSE NoYaml

\* ------------------------------------------------------------------------
\* The YAML judge: baseline a, requested b, mutated c
\* ------------------------------------------------------------------------

KeySet(n) == {n.keys[i].value : i \in 1..Len(n.keys)}

\* the child of the mapping n under the key k
ChildAt(n, k) == n.content[CHOOSE i \in 1..Len(n.keys) : n.keys[i].value = k]

\* faulty variant of the judge: the kinds are compared and nothing below
yamlNodesMatch_KindOnly(a, b, c) == b.kind = a.kind /\ c.kind = a.kind

RECURSIVE yamlNodesMatch(_, _, _)
yamlNodesMatch(a, b, c) ==
    IF b.kind # a.kind \/ c.kind # a.kind THEN FALSE
    ELSE IF a.kind = "mapping" THEN
        /\ KeySet(b) = KeySet(a) /\ KeySet(c) = KeySet(a)
        /\ \A k \in KeySet(a) : yamlNodesMatch(ChildAt(a, k), ChildAt(b, k), ChildAt(c, k))
    ELSE IF a.kind = "sequence" THEN
        /\ Len(b.content) = Len(a.content) /\ Len(c.content) = Len(a.content)
        /\ \A i \in 1..Len(a.content) : yamlNodesMatch(a.content[i], b.content[i], c.content[i])
    ELSE TRUE

yamlDocumentsMatch(a, b, c) ==
    /\ Len(b.docs) = Len(a.docs) /\ Len(c.docs) = Len(a.docs)
    /\ \A i \in 1..Len(a.docs) : yamlNodesMatch(a.docs[i], b.docs[i], c.docs[i])

\* one pass of the template engine for yamltemplate.  decorated: the clone
\* in which every data reference outside StructuralData goes through cb
ExecuteWithCallback(tmpl, decorated, cb, d) ==
    LET piece(p) == IF p.t = "text" THEN p.s
                    ELSE IF p.fn = "StructuralData" THEN d
                    ELSE IF p.fn = "Age" THEN <<"4", "2">>
                    ELSE IF decorated THEN Call(cb, d)
                    ELSE d
    IN  Flatten([i \in 1..Len(tmpl) |-> piece(tmpl[i])])

\* ------------------------------------------------------------------------
\* The inputs: templates of shtemplate, formats of shsprintf
\* ------------------------------------------------------------------------

TmplEcho == <<Txt(<<"e", "c", "h", "o", " ">>), Act("none")>>
TmplCat == <<Txt(<<"c", "a", "t", " ">>), Act("none")>>
TmplCatTwo == <<Txt(<<"c", "a", "t", " ">>), Act("none"), Txt(<<" ">>), Act("none")>>
TmplAllowFlags == <<Txt(<<"c", "a", "t", " ">>), Act("AllowFlags")>>
TmplRedirect == <<Txt(<<"b", "l", "a", " ", ">", " ">>), Act("none")>>
TmplCommand == <<Act("none"), Txt(<<" ", "a", "r", "g">>)>>
TmplArgRedirect == <<Txt(<<"a", " ">>), Act("none"), Txt(<<" ", ">", "b">>)>>
TmplCmdSubst == <<Txt(<<"a", " ", BQ, "b", " ">>), Act("none"), Txt(<<";", "c", BQ>>)>>
TmplCatSubst == <<Txt(<<"e", "c", "h", "o", " ", BQ, "c", "a", "t", " ">>), Act("none"), Txt(<<BQ>>)>>
TmplFunc ==
    <<Txt(<<"b", "(", ")", " ", "{", " ", "e", "c", "h", "o", " ">>), Act("none"), Txt(<<";", " ", "}">>)>>
TmplDefault == <<Txt(<<"e", "c", "h", "o", " ", "$", "{", "x", ":", "-">>), Act("none"), Txt(<<"}">>)>>
TmplStructuralRedirect == <<Txt(<<"b", "l", "a", " ", ">", " ">>), Act("StructuralData")>>
TmplNonEmpty == <<Txt(<<"e", "c", "h", "o", " ">>), Act("nonEmpty")>>
TmplAtMost4 == <<Txt(<<"e", "c", "h", "o", " ">>), Act("atMost4")>>
TmplNot4 == <<Txt(<<"e", "c", "h", "o", " ">>), Act("not4")>>
TmplIntEcho == <<Txt(<<"e", "c", "h", "o", " ">>), Act("Int")>>
TmplIntCat == <<Txt(<<"c", "a", "t", " ">>), Act("Int"), Txt(<<" ">>), Act("Int")>>
TmplIntCommand == <<Act("Int"), Txt(<<" ", "a", "r", "g">>)>>
TmplIntRedirect == <<Txt(<<"b", "l", "a", " ", ">", " ">>), Act("Int")>>
TmplIntUnclosed == <<Txt(<<"e", "c", "h", "o", " ", "\"">>), Act("Int")>>
TmplIntSmall == <<Txt(<<"e", "c", "h", "o", " ">>), Act("IntSmall")>>
TmplDblQuoted == <<Txt(<<"e", "c", "h", "o", " ", "\"">>), Act("none"), Txt(<<"\"">>)>>
TmplHeredoc == <<Txt(<<"c", "a", "t", " ", "<", "<", "E", "\n">>), Act("none"), Txt(<<"\n", "E">>)>>
TmplUnclosed == <<Txt(<<"e", "c", "h", "o", " ", "\"">>), Act("none")>>
TmplAssign == <<Txt(<<"x", "=">>), Act("none")>>

Templates == {TmplEcho, TmplCat, TmplCatTwo, TmplAllowFlags, TmplRedirect, TmplCommand,
              TmplDblQuoted, TmplHeredoc, TmplUnclosed, TmplAssign, TmplStructuralRedirect,
              TmplArgRedirect, TmplCmdSubst, TmplCatSubst, TmplFunc, TmplDefault}

FmtEcho == <<Txt(<<"e", "c", "h", "o", " ">>), Verb>>
FmtCat == <<Txt(<<"c", "a", "t", " ">>), Verb>>
FmtCatTwo == <<Txt(<<"c", "a", "t", " ">>), Verb, Txt(<<" ">>), Verb>>
FmtGit == <<Txt(<<"g", "i", "t", " ", "c", "o", "m", "m", "i", "t", " ", "-", "m", " ">>), Verb>>
FmtDblQuoted == <<Txt(<<"e", "c", "h", "o", " ", "\"">>), Verb, Txt(<<"\"">>)>>
FmtUnclosed == <<Txt(<<"e", "c", "h", "o", " ", "\"">>), Verb>>
FmtArg == <<Txt(<<"c", "m", "d", " ", "-", "-", "a", "r", "g", "=">>), Verb>>
FmtTrunc == <<Txt(<<"c", "m", "d", " ", "\"">>), VerbQ(<<".", "2">>), Txt(<<"\"">>)>>
FmtTruncApart ==
    <<Txt(<<"c", "m", "d", " ", "\"">>), VerbQ(<<".", "2">>), Txt(<<" ">>), VerbQ(<<".", "2">>),
      Txt(<<"\"">>)>>
FmtTruncTwice ==
    <<Txt(<<"c", "m", "d", " ", "\"">>), VerbQ(<<".", "2">>), VerbQ(<<".", "2">>), Txt(<<"\"">>)>>
FmtTruncFirst == <<VerbQ(<<".", "2">>), Txt(<<" ", "a">>)>>
TruncFormats == {FmtTrunc, FmtTruncApart, FmtTruncTwice, FmtTruncFirst}

FmtComment == <<Txt(<<"a", " ">>), Verb, Txt(<<";", "b", " ", "#", "c">>)>>
FmtInComment == <<Txt(<<"a", " ", "#">>), Verb>>

\* formats that declare a function, with and without a verb
FmtFunc ==
    <<Txt(<<"b", "(", ")", " ", "{", " ", "e", "c", "h", "o", " ">>), Verb, Txt(<<";", " ", "}">>)>>
FmtFuncPlain == <<Txt(<<"b", "(", ")", " ", "{", " ", "a", ";", " ", "}">>)>>
FuncFormats == {FmtFunc, FmtFuncPlain}

\* the verb in the place of the command name
FmtCommand == <<Verb, Txt(<<" ", "a">>)>>

\* a parameter expansion with a default
FmtDefault == <<Txt(<<"e", "c", "h", "o", " ", "$", "{", "x", ":", "-">>), Verb, Txt(<<"}">>)>>

Formats == {FmtEcho, FmtCat, FmtCatTwo, FmtGit, FmtDblQuoted, FmtUnclosed,
            FmtComment, FmtInComment, FmtDefault, FmtCommand} \cup FuncFormats

\* templates of yamltemplate
YamlHello == <<Txt(<<"{", " ", "h", ":", " ">>), Act("none"), Txt(<<" ", "}">>)>>
YamlSequence == <<Txt(<<"[", " ", "a", ",", " ">>), Act("none"), Txt(<<" ", "]">>)>>
YamlAnchor ==
    <<Txt(<<"{", " ", "s", ":", " ", "&", "a", " ", "'", "t", "'", ",", " ", "d", ":", " ">>),
      Act("none"), Txt(<<" ", "}">>)>>
YamlKey == <<Txt(<<"{", " ">>), Act("none"), Txt(<<":", " ", "v", " ", "}">>)>>
YamlDuplicateKey ==
    <<Txt(<<"{", " ", "h", ":", " ">>), Act("none"), Txt(<<",", " ", "h", ":", " ", "m", " ", "}">>)>>
YamlMapKey == <<Txt(<<"{", " ", "{", "}", ":", " ">>), Act("none"), Txt(<<" ", "}">>)>>
YamlSliceKey == <<Txt(<<"{", " ", "[", "a", "]", ":", " ">>), Act("none"), Txt(<<" ", "}">>)>>
YamlOptOut ==
    <<Txt(<<"{", " ", "P", "-">>), Act("StructuralData"), Txt(<<":", " ">>), Act("Age"),
      Txt(<<" ", "}">>)>>

YamlTemplates == {YamlHello, YamlSequence, YamlAnchor, YamlKey, YamlDuplicateKey, YamlMapKey,
                  YamlSliceKey, YamlOptOut}

\* the data strings given to Execute of yamltemplate
MaxYamlLen == 2
YamlAlphabet == {"a", "h", ",", ":", " ", "*", "{", "}", "[", "]"}

RECURSIVE YamlUpTo(_)
YamlUpTo(n) ==
    IF n = 0 THEN {<<>>}
    ELSE LET shorter == YamlUpTo(n - 1)
         IN  shorter \cup {Append(s, c) : s \in {t \in shorter : Len(t) = n - 1},
                                          c \in YamlAlphabet}

Bla == <<"b", "l", "a">>
AddedKey == <<"a", ",", " ", "b", ":", " ", "c">>
RepeatedKey == <<"a", ",", " ", "h", ":", " ", "b">>
AddedElement == <<"a", ",", " ", "b">>
AddedDocument == <<"a", " ", "}", "\n", "-", "-", "-", "\n", "{", " ", "b">>

YamlStrings ==
    YamlUpTo(MaxYamlLen) \cup {Bla, AddedKey, RepeatedKey, AddedElement, AddedDocument}

\* the operands of a Sprintf call: the data string for every verb
Operands(format) ==
    LET verbs == {i \in 1..Len(format) : format[i].t = "verb"}
    IN  [i \in 1..Cardinality(verbs) |-> <<>>]

\* ------------------------------------------------------------------------
\* State: the inputs of the call and the stage it has reached
\* ------------------------------------------------------------------------

VARIABLES arg, tmpl, data, writer, uuid, run, prev, pc, err, wr, result, matched,
          requestedResult, baselineResult, mutatedResult,
          parsedBaselineResult, parsedRequestedResult, parsedMutatedResult

vars == <<facade, arg, tmpl, data, writer, uuid, run, prev, pc, err, wr, result, matched,
          requestedResult, baselineResult, mutatedResult,
          parsedBaselineResult, parsedRequestedResult, parsedMutatedResult>>

inputs == <<facade, arg, tmpl, data, writer, uuid, run, prev>>

\* identifier tokens that New may mint for a Template
Tokens == {"u1", "u2"}

\* the outcome of an earlier call, before there is one
NoRun == [pc |-> "none", err |-> "none", out |-> <<>>]

\* the error a failing io.Writer returns from Write
ErrWriter == "write error"

ErrInvalidShTemplate == "Invalid Shell Template"
ErrShInjection == "Shell Injection Detected"
ErrInvalidYAMLTemplate == "Invalid YAML Template"
ErrYAMLInjection == "YAML Injection Detected"

Init ==
    /\ facade \in {"shtemplate", "shsprintf", "yamltemplate"}
    /\ tmpl \in (IF facade = "shtemplate" THEN Templates
                 ELSE IF facade = "shsprintf" THEN Formats ELSE YamlTemplates)
    /\ data \in (IF facade = "yamltemplate" THEN YamlStrings ELSE DataStrings)
    /\ arg = data
    /\ writer = "ok"
    /\ uuid = "u1" /\ run = 1 /\ prev = NoRun
    /\ pc = "INIT"
    /\ err = "unset"
    /\ wr = <<>>
    /\ result = <<>>
    /\ matched = "unset"
    /\ requestedResult = <<>>
    /\ baselineResult = <<>>
    /\ mutatedResult = <<>>
    /\ parsedBaselineResult = NoFile
    /\ parsedRequestedResult = NoFile
    /\ parsedMutatedResult = NoFile

\* ---- Template.Execute -------------------------------------------------

\* faulty variant of the first stage: the template is executed straight
\* into the caller's writer
ExecRenderRequested_IntoWriter ==
    /\ facade = "shtemplate" /\ pc = "INIT"
    /\ requestedResult' = ExecuteWithShCallback(tmpl, FALSE, "EchoString", "EchoString", data)
    /\ wr' = wr \o requestedResult'
    /\ pc' = "RENDERED_HONEST"
    /\ UNCHANGED <<inputs, err, result, matched, baselineResult, mutatedResult,
                   parsedBaselineResult, parsedRequestedResult, parsedMutatedResult>>

ExecRenderRequested ==
    /\ facade = "shtemplate" /\ pc = "INIT"
    /\ LET e == ExecuteError(tmpl, FALSE, "EchoString", data)
       IN  /\ requestedResult' = IF e = "nil"
                        THEN ExecuteWithShCallback(tmpl, FALSE, "EchoString", "EchoString", data)
                        ELSE requestedResult
           /\ pc' = IF e = "nil" THEN "RENDERED_HONEST" ELSE "FAILED"
           /\ err' = IF e = "nil" THEN err ELSE e
    /\ UNCHANGED <<inputs, wr, result, matched, baselineResult, mutatedResult,
                   parsedBaselineResult, parsedRequestedResult, parsedMutatedResult>>

\* faulty variant of the baseline pass: an error of the engine is reported
\* as an injection
ExecRenderBaseline_ErrorAsInjection ==
    /\ facade = "shtemplate" /\ pc = "RENDERED_HONEST"
    /\ LET e == ExecuteError(tmpl, TRUE, "BaselineString", data)
       IN  /\ baselineResult' = IF e = "nil"
                        THEN ExecuteWithShCallback(tmpl, TRUE, "BaselineString", "prefixDash", data)
                        ELSE baselineResult
           /\ pc' = IF e = "nil" THEN "RENDERED_BASELINE" ELSE "FAILED"
           /\ err' = IF e = "nil" THEN err ELSE ErrShInjection
    /\ UNCHANGED <<inputs, wr, result, matched, requestedResult, mutatedResult,
                   parsedBaselineResult, parsedRequestedResult, parsedMutatedResult>>

ExecRenderBaseline ==
    /\ facade = "shtemplate" /\ pc = "RENDERED_HONEST"
    /\ LET e == ExecuteError(tmpl, TRUE, "BaselineString", data)
       IN  /\ baselineResult' = IF e = "nil"
                        THEN ExecuteWithShCallback(tmpl, TRUE, "BaselineString", "prefixDash", data)
                        ELSE baselineResult
           /\ pc' = IF e = "nil" THEN "RENDERED_BASELINE" ELSE "FAILED"
           /\ err' = IF e = "nil" THEN err ELSE e
    /\ UNCHANGED <<inputs, wr, result, matched, requestedResult, mutatedResult,
                   parsedBaselineResult, parsedRequestedResult, parsedMutatedResult>>

\* faulty variant of the baseline parse: its failure is reported as an
\* injection
ExecParseBaseline_AsInjection ==
    /\ facade = "shtemplate" /\ pc = "RENDERED_BASELINE"
    /\ parsedBaselineResult' = Parse(baselineResult)
    /\ pc' = IF parsedBaselineResult'.ok THEN "PARSED_BASELINE" ELSE "FAILED"
    /\ err' = IF parsedBaselineResult'.ok THEN err ELSE ErrShInjection
    /\ UNCHANGED <<inputs, wr, result, matched, requestedResult, baselineResult, mutatedResult,
                   parsedRequestedResult, parsedMutatedResult>>

ExecParseBaseline ==
    /\ facade = "shtemplate" /\ pc = "RENDERED_BASELINE"
    /\ parsedBaselineResult' = Parse(baselineResult)
    /\ pc' = IF parsedBaselineResult'.ok THEN "PARSED_BASELINE" ELSE "FAILED"
    /\ err' = IF parsedBaselineResult'.ok THEN err ELSE ErrInvalidShTemplate
    /\ UNCHANGED <<inputs, wr, result, matched, requestedResult, baselineResult, mutatedResult,
                   parsedRequestedResult, parsedMutatedResult>>

\* faulty variant of the honest parse: its failure does not end the call
ExecParseRequested_Continue ==
    /\ facade = "shtemplate" /\ pc = "PARSED_BASELINE"
    /\ parsedRequestedResult' = Parse(requestedResult)
    /\ pc' = "PARSED_HONEST"
    /\ err' = err
    /\ UNCHANGED <<inputs, wr, result, matched, requestedResult, baselineResult, mutatedResult,
                   parsedBaselineResult, parsedMutatedResult>>

ExecParseRequested ==
    /\ facade = "shtemplate" /\ pc = "PARSED_BASELINE"
    /\ parsedRequestedResult' = Parse(requestedResult)
    /\ pc' = IF parsedRequestedResult'.ok THEN "PARSED_HONEST" ELSE "FAILED"
    /\ err' = IF parsedRequestedResult'.ok THEN err ELSE ErrShInjection
    /\ UNCHANGED <<inputs, wr, result, matched, requestedResult, baselineResult, mutatedResult,
                   parsedBaselineResult, parsedMutatedResult>>

ExecRenderMutated ==
    /\ facade = "shtemplate" /\ pc = "PARSED_HONEST"
    /\ LET e == ExecuteError(tmpl, TRUE, "mutateString", data)
       IN  /\ mutatedResult' = IF e = "nil"
                        THEN ExecuteWithShCallback(tmpl, TRUE, "mutateString", "prefixDash", data)
                        ELSE mutatedResult
           /\ pc' = IF e = "nil" THEN "RENDERED_MUTATED" ELSE "FAILED"
           /\ err' = IF e = "nil" THEN err ELSE e
    /\ UNCHANGED <<inputs, wr, result, matched, requestedResult, baselineResult,
                   parsedBaselineResult, parsedRequestedResult, parsedMutatedResult>>

ExecParseMutated ==
    /\ facade = "shtemplate" /\ pc = "RENDERED_MUTATED"
    /\ parsedMutatedResult' = Parse(mutatedResult)
    /\ pc' = IF parsedMutatedResult'.ok THEN "PARSED_MUTATED" ELSE "FAILED"
    /\ err' = IF parsedMutatedResult'.ok THEN err ELSE ErrShInjection
    /\ UNCHANGED <<inputs, wr, result, matched, requestedResult, baselineResult, mutatedResult,
                   parsedBaselineResult, parsedRequestedResult>>

\* scriptsMatch; a panic inside it is recovered by the deferred function
\* faulty variant of Execute: without the deferred recover a panic of the
\* comparison leaves Execute as a panic
ExecJudge_NoRecover ==
    /\ facade = "shtemplate" /\ pc = "PARSED_MUTATED"
    /\ matched' = scriptsMatch3(parsedBaselineResult, parsedRequestedResult, parsedMutatedResult)
    /\ pc' = IF matched' = "T" THEN "JUDGED" ELSE IF matched' = "F" THEN "FAILED" ELSE "PANICKED"
    /\ err' = IF matched' = "T" THEN err ELSE IF matched' = "F" THEN ErrShInjection ELSE err
    /\ UNCHANGED <<inputs, wr, result, requestedResult, baselineResult, mutatedResult,
                   parsedBaselineResult, parsedRequestedResult, parsedMutatedResult>>

\* scriptsMatch; a panic inside it is recovered by the deferred function of
\* Execute, which sets err = ErrShInjection
ExecJudge ==
    /\ facade = "shtemplate" /\ pc = "PARSED_MUTATED"
    /\ matched' = scriptsMatch3(parsedBaselineResult, parsedRequestedResult, parsedMutatedResult)
    /\ pc' = IF matched' = "T" THEN "JUDGED" ELSE "FAILED"
    /\ err' = IF matched' = "T" THEN err ELSE ErrShInjection
    /\ UNCHANGED <<inputs, wr, result, requestedResult, baselineResult, mutatedResult,
                   parsedBaselineResult, parsedRequestedResult, parsedMutatedResult>>

\* faulty variant of the last stage: the baseline buffer is written
ExecEmit_BaselineBuffer ==
    /\ facade = "shtemplate" /\ pc = "JUDGED"
    /\ wr' = wr \o baselineResult
    /\ err' = "nil"
    /\ pc' = "EMITTED"
    /\ UNCHANGED <<inputs, result, matched, requestedResult, baselineResult, mutatedResult,
                   parsedBaselineResult, parsedRequestedResult, parsedMutatedResult>>

\* requestedResult.WriteTo(wr); return nil.  A failing writer takes some
\* leading part of the bytes and returns its error to WriteTo
ExecEmit ==
    /\ facade = "shtemplate" /\ pc = "JUDGED"
    /\ \E n \in 0..Len(requestedResult) :
           /\ writer = "ok" => n = Len(requestedResult)
           /\ wr' = wr \o SubSeq(requestedResult, 1, n)
    /\ err' = "nil"
    /\ pc' = "EMITTED"
    /\ UNCHANGED <<inputs, result, matched, requestedResult, baselineResult, mutatedResult,
                   parsedBaselineResult, parsedRequestedResult, parsedMutatedResult>>

\* ---- SprintfLang ------------------------------------------------------

\* the operands a: the data string for every verb of the format
a == [i \in DOMAIN Operands(tmpl) |-> data]

SprintfBaseline ==
    /\ facade = "shsprintf" /\ pc = "INIT"
    /\ LET baselineArgs == DeepCopyMutateStrings(a, "replaceable")
           baselineFormat == ParseFormat(ReplaceAllTruncation(FormatString(tmpl), 1), 1, <<>>)
       IN  baselineResult' = FmtSprintf(baselineFormat, baselineArgs)
    /\ pc' = "RENDERED_BASELINE"
    /\ UNCHANGED <<inputs, err, wr, result, matched, requestedResult, mutatedResult,
                   parsedBaselineResult, parsedRequestedResult, parsedMutatedResult>>

SprintfParseBaseline ==
    /\ facade = "shsprintf" /\ pc = "RENDERED_BASELINE"
    /\ parsedBaselineResult' = Parse(baselineResult)
    /\ pc' = IF parsedBaselineResult'.ok THEN "PARSED_BASELINE" ELSE "FAILED"
    /\ err' = IF parsedBaselineResult'.ok THEN err ELSE ErrInvalidShTemplate
    /\ UNCHANGED <<inputs, wr, result, matched, requestedResult, baselineResult, mutatedResult,
                   parsedRequestedResult, parsedMutatedResult>>

SprintfRequested ==
    /\ facade = "shsprintf" /\ pc = "PARSED_BASELINE"
    /\ requestedResult' = FmtSprintf(tmpl, a)
    /\ pc' = "RENDERED_HONEST"
    /\ UNCHANGED <<inputs, err, wr, result, matched, baselineResult, mutatedResult,
                   parsedBaselineResult, parsedRequestedResult, parsedMutatedResult>>

SprintfParseRequested ==
    /\ facade = "shsprintf" /\ pc = "RENDERED_HONEST"
    /\ parsedRequestedResult' = Parse(requestedResult)
    /\ pc' = IF parsedRequestedResult'.ok THEN "PARSED_HONEST" ELSE "FAILED"
    /\ err' = IF parsedRequestedResult'.ok THEN err ELSE ErrShInjection
    /\ UNCHANGED <<inputs, wr, result, matched, requestedResult, baselineResult, mutatedResult,
                   parsedBaselineResult, parsedMutatedResult>>

\* faulty variant of the return of SprintfLang: the rendered string is
\* returned together with the error
SprintfJudge_StringWithError ==
    /\ facade = "shsprintf" /\ pc = "PARSED_HONEST"
    /\ matched' = scriptsMatch2(parsedBaselineResult, parsedRequestedResult)
    /\ pc' = IF matched' = "T" THEN "RETURNED" ELSE IF matched' = "F" THEN "FAILED" ELSE "PANICKED"
    /\ err' = IF matched' = "T" THEN "nil" ELSE IF matched' = "F" THEN ErrShInjection ELSE err
    /\ result' = requestedResult
    /\ UNCHANGED <<inputs, wr, requestedResult, baselineResult, mutatedResult,
                   parsedBaselineResult, parsedRequestedResult, parsedMutatedResult>>

\* scriptsMatch and the return of SprintfLang
SprintfJudge ==
    /\ facade = "shsprintf" /\ pc = "PARSED_HONEST"
    /\ matched' = scriptsMatch2(parsedBaselineResult, parsedRequestedResult)
    /\ pc' = IF matched' = "T" THEN "RETURNED" ELSE IF matched' = "F" THEN "FAILED" ELSE "PANICKED"
    /\ err' = IF matched' = "T" THEN "nil" ELSE IF matched' = "F" THEN ErrShInjection ELSE err
    /\ result' = IF matched' = "T" THEN requestedResult ELSE <<>>
    /\ UNCHANGED <<inputs, wr, requestedResult, baselineResult, mutatedResult,
                   parsedBaselineResult, parsedRequestedResult, parsedMutatedResult>>

\* Execute of yamltemplate: the honest rendering
YamlRenderRequested ==
    /\ facade = "yamltemplate" /\ pc = "INIT"
    /\ requestedResult' = ExecuteWithCallback(tmpl, FALSE, "EchoString", data)
    /\ pc' = "RENDERED_HONEST"
    /\ UNCHANGED <<inputs, err, wr, result, matched, baselineResult, mutatedResult,
                   parsedBaselineResult, parsedRequestedResult, parsedMutatedResult>>

YamlRenderBaseline ==
    /\ facade = "yamltemplate" /\ pc = "RENDERED_HONEST"
    /\ baselineResult' = ExecuteWithCallback(tmpl, TRUE, "BaselineString", data)
    /\ pc' = "RENDERED_BASELINE"
    /\ UNCHANGED <<inputs, err, wr, result, matched, requestedResult, mutatedResult,
                   parsedBaselineResult, parsedRequestedResult, parsedMutatedResult>>

YamlParseBaseline ==
    /\ facade = "yamltemplate" /\ pc = "RENDERED_BASELINE"
    /\ parsedBaselineResult' = unmarshalYaml(baselineResult)
    /\ pc' = IF parsedBaselineResult'.ok THEN "PARSED_BASELINE" ELSE "FAILED"
    /\ err' = IF parsedBaselineResult'.ok THEN err ELSE ErrInvalidYAMLTemplate
    /\ UNCHANGED <<inputs, wr, result, matched, requestedResult, baselineResult, mutatedResult,
                   parsedRequestedResult, parsedMutatedResult>>

YamlParseRequested ==
    /\ facade = "yamltemplate" /\ pc = "PARSED_BASELINE"
    /\ parsedRequestedResult' = unmarshalYaml(requestedResult)
    /\ pc' = IF parsedRequestedResult'.ok THEN "PARSED_HONEST" ELSE "FAILED"
    /\ err' = IF parsedRequestedResult'.ok THEN err ELSE ErrYAMLInjection
    /\ UNCHANGED <<inputs, wr, result, matched, requestedResult, baselineResult, mutatedResult,
                   parsedBaselineResult, parsedMutatedResult>>

YamlRenderMutated ==
    /\ facade = "yamltemplate" /\ pc = "PARSED_HONEST"
    /\ mutatedResult' = ExecuteWithCallback(tmpl, TRUE, "mutateString", data)
    /\ pc' = "RENDERED_MUTATED"
    /\ UNCHANGED <<inputs, err, wr, result, matched, requestedResult, baselineResult,
                   parsedBaselineResult, parsedRequestedResult, parsedMutatedResult>>

YamlParseMutated ==
    /\ facade = "yamltemplate" /\ pc = "RENDERED_MUTATED"
    /\ parsedMutatedResult' = unmarshalYaml(mutatedResult)
    /\ pc' = IF parsedMutatedResult'.ok THEN "PARSED_MUTATED" ELSE "FAILED"
    /\ err' = IF parsedMutatedResult'.ok THEN err ELSE ErrYAMLInjection
    /\ UNCHANGED <<inputs, wr, result, matched, requestedResult, baselineResult, mutatedResult,
                   parsedBaselineResult, parsedRequestedResult>>

YamlJudge ==
    /\ facade = "yamltemplate" /\ pc = "PARSED_MUTATED"
    /\ matched' = IF yamlDocumentsMatch(parsedBaselineResult, parsedRequestedResult,
                                        parsedMutatedResult) THEN "T" ELSE "F"
    /\ pc' = IF matched' = "T" THEN "JUDGED" ELSE "FAILED"
    /\ err' = IF matched' = "T" THEN err ELSE ErrYAMLInjection
    /\ UNCHANGED <<inputs, wr, result, requestedResult, baselineResult, mutatedResult,
                   parsedBaselineResult, parsedRequestedResult, parsedMutatedResult>>

YamlEmit ==
    /\ facade = "yamltemplate" /\ pc = "JUDGED"
    /\ wr' = wr \o requestedResult
    /\ err' = "nil"
    /\ pc' = "EMITTED"
    /\ UNCHANGED <<inputs, result, matched, requestedResult, baselineResult, mutatedResult,
                   parsedBaselineResult, parsedRequestedResult, parsedMutatedResult>>

Next ==
    \/ ExecRenderRequested
    \/ ExecRenderBaseline
    \/ ExecParseBaseline
    \/ ExecParseRequested
    \/ ExecRenderMutated
    \/ ExecParseMutated
    \/ ExecJudge
    \/ ExecEmit
    \/ SprintfBaseline
    \/ SprintfParseBaseline
    \/ SprintfRequested
    \/ SprintfParseRequested
    \/ SprintfJudge
    \/ YamlRenderRequested
    \/ YamlRenderBaseline
    \/ YamlParseBaseline
    \/ YamlParseRequested
    \/ YamlRenderMutated
    \/ YamlParseMutated
    \/ YamlJudge
    \/ YamlEmit

Spec == Init /\ [][Next]_vars

\* ------------------------------------------------------------------------
\* A caller that escapes its argument: Sprintf("cmd --arg=%s",
\* EscapeDefaultContext(arg))
\* ------------------------------------------------------------------------

InitEscape ==
    /\ facade = "shsprintf"
    /\ tmpl = FmtArg
    /\ arg \in ArgStrings
    /\ data = <<>>
    /\ writer = "ok"
    /\ uuid = "u1" /\ run = 1 /\ prev = NoRun
    /\ pc = "CALLER"
    /\ err = "unset"
    /\ wr = <<>>
    /\ result = <<>>
    /\ matched = "unset"
    /\ requestedResult = <<>>
    /\ baselineResult = <<>>
    /\ mutatedResult = <<>>
    /\ parsedBaselineResult = NoFile
    /\ parsedRequestedResult = NoFile
    /\ parsedMutatedResult = NoFile

Escape ==
    /\ pc = "CALLER"
    /\ data' = EscapeDefaultContext(arg)
    /\ pc' = "INIT"
    /\ UNCHANGED <<facade, arg, tmpl, writer, uuid, run, prev, err, wr, result, matched, requestedResult, baselineResult,
                   mutatedResult, parsedBaselineResult, parsedRequestedResult,
                   parsedMutatedResult>>

NextEscape ==
    \/ Escape
    \/ SprintfBaseline
    \/ SprintfParseBaseline
    \/ SprintfRequested
    \/ SprintfParseRequested
    \/ SprintfJudge

SpecEscape == InitEscape /\ [][NextEscape]_vars

\* ------------------------------------------------------------------------
\* Calls of Sprintf whose format cuts its arguments with a precision
\* ------------------------------------------------------------------------

InitTrunc ==
    /\ facade = "shsprintf"
    /\ tmpl \in TruncFormats
    /\ data \in DataStrings
    /\ arg = data
    /\ writer = "ok"
    /\ uuid = "u1" /\ run = 1 /\ prev = NoRun
    /\ pc = "INIT"
    /\ err = "unset"
    /\ wr = <<>>
    /\ result = <<>>
    /\ matched = "unset"
    /\ requestedResult = <<>>
    /\ baselineResult = <<>>
    /\ mutatedResult = <<>>
    /\ parsedBaselineResult = NoFile
    /\ parsedRequestedResult = NoFile
    /\ parsedMutatedResult = NoFile

NextTrunc ==
    \/ SprintfBaseline
    \/ SprintfParseBaseline
    \/ SprintfRequested
    \/ SprintfParseRequested
    \/ SprintfJudge

SpecTrunc == InitTrunc /\ [][NextTrunc]_vars

\* ------------------------------------------------------------------------
\* Calls of Execute in which the engine or the writer may fail
\* ------------------------------------------------------------------------

FaultTemplates == {TmplNonEmpty, TmplAtMost4, TmplNot4}

InitFaults ==
    /\ facade = "shtemplate"
    /\ tmpl \in {TmplEcho, TmplCat, TmplRedirect, TmplUnclosed} \cup FaultTemplates
    /\ data \in DataStrings
    /\ arg = data
    /\ writer \in {"ok", "failing"}
    /\ uuid = "u1" /\ run = 1 /\ prev = NoRun
    /\ pc = "INIT"
    /\ err = "unset"
    /\ wr = <<>>
    /\ result = <<>>
    /\ matched = "unset"
    /\ requestedResult = <<>>
    /\ baselineResult = <<>>
    /\ mutatedResult = <<>>
    /\ parsedBaselineResult = NoFile
    /\ parsedRequestedResult = NoFile
    /\ parsedMutatedResult = NoFile

NextFaults ==
    \/ ExecRenderRequested
    \/ ExecRenderBaseline
    \/ ExecParseBaseline
    \/ ExecParseRequested
    \/ ExecRenderMutated
    \/ ExecParseMutated
    \/ ExecJudge
    \/ ExecEmit

SpecFaults == InitFaults /\ [][NextFaults]_vars

\* ------------------------------------------------------------------------
\* The same call made twice: on the same Template, or on a Template made
\* anew from the same text
\* ------------------------------------------------------------------------

InitTwice ==
    /\ facade \in {"shtemplate", "shsprintf", "yamltemplate"}
    /\ tmpl \in (IF facade = "shtemplate"
                 THEN {TmplEcho, TmplCat, TmplAllowFlags, TmplArgRedirect, TmplUnclosed}
                      \cup FaultTemplates
                 ELSE IF facade = "shsprintf" THEN {FmtEcho, FmtCat, FmtUnclosed, FmtComment}
                 ELSE {YamlHello, YamlDuplicateKey, YamlOptOut})
    /\ data \in (IF facade = "yamltemplate" THEN YamlStrings ELSE DataStrings)
    /\ arg = data
    /\ writer = "ok"
    /\ uuid = "u1" /\ run = 1 /\ prev = NoRun
    /\ pc = "INIT"
    /\ err = "unset"
    /\ wr = <<>>
    /\ result = <<>>
    /\ matched = "unset"
    /\ requestedResult = <<>>
    /\ baselineResult = <<>>
    /\ mutatedResult = <<>>
    /\ parsedBaselineResult = NoFile
    /\ parsedRequestedResult = NoFile
    /\ parsedMutatedResult = NoFile

\* faulty variant of the second call: it writes to the writer that holds
\* the output of the first
SecondCall_SameWriter ==
    /\ run = 1 /\ pc \in {"EMITTED", "RETURNED", "FAILED", "PANICKED"}
    /\ run' = 2
    /\ prev' = [pc |-> pc, err |-> err, out |-> IF facade = "shsprintf" THEN result ELSE wr]
    /\ uuid' \in Tokens
    /\ pc' = "INIT" /\ err' = "unset" /\ wr' = wr /\ result' = <<>> /\ matched' = "unset"
    /\ requestedResult' = <<>> /\ baselineResult' = <<>> /\ mutatedResult' = <<>>
    /\ parsedBaselineResult' = NoFile /\ parsedRequestedResult' = NoFile
    /\ parsedMutatedResult' = NoFile
    /\ UNCHANGED <<facade, arg, tmpl, data, writer>>

\* the call has returned and is made again with the same template or
\* format and the same data, and a writer of its own: its buffers, trees
\* and named result are new variables of the new call; the Template is the
\* same one, or one made anew (with another identifier) from the same text
SecondCall ==
    /\ run = 1 /\ pc \in {"EMITTED", "RETURNED", "FAILED", "PANICKED"}
    /\ run' = 2
    /\ prev' = [pc |-> pc, err |-> err, out |-> IF facade = "shsprintf" THEN result ELSE wr]
    /\ uuid' \in Tokens
    /\ pc' = "INIT" /\ err' = "unset" /\ wr' = <<>> /\ result' = <<>> /\ matched' = "unset"
    /\ requestedResult' = <<>> /\ baselineResult' = <<>> /\ mutatedResult' = <<>>
    /\ parsedBaselineResult' = NoFile /\ parsedRequestedResult' = NoFile
    /\ parsedMutatedResult' = NoFile
    /\ UNCHANGED <<facade, arg, tmpl, data, writer>>

NextTwice ==
    \/ Next
    \/ SecondCall

SpecTwice == InitTwice /\ [][NextTwice]_vars

\* ------------------------------------------------------------------------
\* Calls of Execute whose data holds integers only
\* ------------------------------------------------------------------------

IntTemplates ==
    {TmplIntEcho, TmplIntCat, TmplIntCommand, TmplIntRedirect, TmplIntUnclosed, TmplIntSmall}

\* most digits of an integer of the data
MaxDigits == 2

RECURSIVE DigitsUpTo(_)
DigitsUpTo(n) ==
    IF n = 0 THEN {<<>>}
    ELSE LET shorter == DigitsUpTo(n - 1)
         IN  shorter \cup {Append(x, c) : x \in {t \in shorter : Len(t) = n - 1},
                                          c \in {"0", "1", "3"}}

\* decimal texts of integers: no leading zero, an optional sign
IntStrings ==
    LET naturals == {x \in DigitsUpTo(MaxDigits) : x # <<>> /\ (Len(x) > 1 => x[1] # "0")}
    IN  naturals \cup {<<"-">> \o x : x \in naturals \ {<<"0">>}}

InitInts ==
    /\ facade = "shtemplate"
    /\ tmpl \in IntTemplates
    /\ data \in IntStrings
    /\ arg = data
    /\ writer = "ok"
    /\ uuid = "u1" /\ run = 1 /\ prev = NoRun
    /\ pc = "INIT"
    /\ err = "unset"
    /\ wr = <<>>
    /\ result = <<>>
    /\ matched = "unset"
    /\ requestedResult = <<>>
    /\ baselineResult = <<>>
    /\ mutatedResult = <<>>
    /\ parsedBaselineResult = NoFile
    /\ parsedRequestedResult = NoFile
    /\ parsedMutatedResult = NoFile

SpecInts == InitInts /\ [][NextFaults]_vars

\* ------------------------------------------------------------------------
\* Types
\* ------------------------------------------------------------------------

TypeOK ==
    /\ pc \in {"CALLER", "INIT", "RENDERED_HONEST", "RENDERED_BASELINE", "PARSED_BASELINE", "PARSED_HONEST",
               "RENDERED_MUTATED", "PARSED_MUTATED", "JUDGED", "EMITTED", "RETURNED", "FAILED",
               "PANICKED"}
    /\ err \in {"unset", "nil", ErrShInjection, ErrInvalidShTemplate, ErrYAMLInjection,
                ErrInvalidYAMLTemplate, ExecError, ErrWriter}
    /\ writer \in {"ok", "failing"}
    /\ uuid \in Tokens /\ run \in {1, 2}
    /\ matched \in {"unset", "T", "F", "P"}

\* ------------------------------------------------------------------------
\* Vocabulary of the properties
\* ------------------------------------------------------------------------

Accepted == pc \in {"EMITTED", "RETURNED"}
Terminal == pc \in {"EMITTED", "RETURNED", "FAILED", "PANICKED"}
IsTemplate == facade = "shtemplate"
IsPrintf == facade = "shsprintf"
IsYaml == facade = "yamltemplate"
IsShell == IsTemplate \/ IsPrintf

\* the bytes handed to the caller
Output == IF IsPrintf THEN result ELSE wr

\* the text of a template or format with d in the place of every action or verb
Substituted(t, d) == Flatten([i \in 1..Len(t) |-> IF t[i].t = "text" THEN t[i].s ELSE d])

OnlyChars(d, cs) == \A i \in 1..Len(d) : d[i] \in cs

\* the words of a statement: assigned values, arguments, redirection targets
\* and here-document bodies
StmtWords(st) ==
    [i \in 1..Len(st.cmd.assigns) |-> st.cmd.assigns[i].value]
    \o st.cmd.args
    \o [i \in 1..Len(st.redirs) |-> st.redirs[i].word]
    \o [i \in 1..Len(st.redirs) |-> st.redirs[i].hdoc]

\* the node kinds of the parts of a word, through double quotes
RECURSIVE WordKinds(_)
WordKinds(w) ==
    [i \in 1..Len(w) |->
        [kind |-> w[i].kind,
         inner |-> IF w[i].kind = "DblQuoted" THEN WordKinds(w[i].parts) ELSE <<>>]]

\* the file f without the redirections that have no redirection of the
\* baseline at their place: what is left are the words that correspond to
\* a word of the baseline
Corresponding(f) ==
    [f EXCEPT !.stmts =
        [k \in 1..Len(f.stmts) |->
            IF k > Len(parsedBaselineResult.stmts) THEN f.stmts[k]
            ELSE LET n == Len(parsedBaselineResult.stmts[k].redirs)
                 IN  IF Len(f.stmts[k].redirs) <= n THEN f.stmts[k]
                     ELSE [f.stmts[k] EXCEPT !.redirs = SubSeq(f.stmts[k].redirs, 1, n)]]]

FileWordKinds(f) ==
    [k \in 1..Len(f.stmts) |->
        [j \in 1..Len(StmtWords(f.stmts[k])) |-> WordKinds(StmtWords(f.stmts[k])[j])]]

\* the strings of the literal parts (with single-quoted parts when sq) of a
\* word, through double quotes, in order
RECURSIVE WordStrings(_, _)
WordStrings(w, sq) ==
    IF w = <<>> THEN <<>>
    ELSE (IF Head(w).kind = "Lit" \/ (sq /\ Head(w).kind = "SglQuoted") THEN <<Head(w).value>>
          ELSE IF Head(w).kind = "DblQuoted" THEN WordStrings(Head(w).parts, sq)
          ELSE <<>>)
         \o WordStrings(Tail(w), sq)

FileLiterals(f) ==
    Flatten([k \in 1..Len(f.stmts) |->
        Flatten([j \in 1..Len(StmtWords(f.stmts[k])) |-> WordStrings(StmtWords(f.stmts[k])[j], FALSE)])])

\* ------------------------------------------------------------------------
\* C1
\* ------------------------------------------------------------------------

\* C1: in an Execute that has failed with ErrShInjection or
\* ErrInvalidShTemplate nothing has been written to the writer, and whenever
\* the writer holds bytes the judge scriptsMatch has returned true.
C1_NoPartialOutput ==
    IsTemplate =>
        /\ (err \in {ErrShInjection, ErrInvalidShTemplate} => wr = <<>>)
        /\ (wr # <<>> => matched = "T")

\* an Execute rejected by the judge after the honest rendering was produced
C1_Witness ==
    /\ IsTemplate /\ pc = "FAILED" /\ err = ErrShInjection
    /\ matched = "F" /\ requestedResult # <<>> /\ wr = <<>>

\* ------------------------------------------------------------------------
\* C2
\* ------------------------------------------------------------------------

Hello == <<"a", "a", "a">>

Backquoted(d) == Len(d) >= 2 /\ d[1] = BQ /\ d[Len(d)] = BQ

\* C2: an accepted call has, in every rendering, the same number of parts
\* in corresponding words (the words that have a word of the baseline at
\* their place) and the same node kind for each part; for
\* the templates and formats echo {{.x}}, echo %s and git commit -m %s a
\* backquoted command as data ends in ErrShInjection, and the data of plain
\* letters is accepted and emitted unchanged.
C2_SameWordParts ==
    /\ (IsShell /\ Accepted) =>
        /\ FileWordKinds(Corresponding(parsedRequestedResult)) = FileWordKinds(parsedBaselineResult)
        /\ IsTemplate =>
               FileWordKinds(Corresponding(parsedMutatedResult)) = FileWordKinds(parsedBaselineResult)
    /\ (Terminal /\ tmpl \in {TmplEcho, FmtEcho, FmtGit} /\ Backquoted(data)) => err = ErrShInjection
    /\ (Terminal /\ tmpl \in {TmplEcho, FmtEcho, FmtGit} /\ data = Hello) =>
        err = "nil" /\ Output = Substituted(tmpl, data)

\* echo %s with a backquoted command: the honest rendering parses, with a
\* command substitution where the baseline has a literal, and is rejected
C2_Witness ==
    /\ IsPrintf /\ tmpl = FmtEcho /\ data = <<BQ, "a", BQ>> /\ pc = "FAILED"
    /\ parsedRequestedResult.ok /\ err = ErrShInjection
    /\ FileWordKinds(parsedRequestedResult) # FileWordKinds(parsedBaselineResult)

\* ------------------------------------------------------------------------
\* C3
\* ------------------------------------------------------------------------

ArgCounts(f) == [k \in 1..Len(f.stmts) |-> Len(f.stmts[k].cmd.args)]

\* d is several words of plain letters separated by blanks
SeveralWords(d) ==
    /\ OnlyChars(d, {"a", " "})
    /\ \E i, j, k \in 1..Len(d) : i < j /\ j < k /\ d[i] = "a" /\ d[j] = " " /\ d[k] = "a"

\* C3: an accepted call has the same number of arguments in every call
\* expression of every rendering; cat {{.x}} and cat %s with data that is
\* several words end in ErrShInjection; with one placeholder per argument
\* (cat {{.x}} {{.x}}, cat %s %s) a one-word datum is accepted.
C3_SameArgumentCount ==
    /\ (IsShell /\ Accepted) =>
        /\ ArgCounts(parsedRequestedResult) = ArgCounts(parsedBaselineResult)
        /\ IsTemplate => ArgCounts(parsedMutatedResult) = ArgCounts(parsedBaselineResult)
    /\ (Terminal /\ tmpl \in {TmplCat, FmtCat} /\ SeveralWords(data)) => err = ErrShInjection
    /\ (Terminal /\ tmpl \in {TmplCatTwo, FmtCatTwo} /\ data = <<"a">>) => err = "nil"

\* cat {{.x}} with the data "a a": three arguments against the baseline's two
C3_Witness ==
    /\ IsTemplate /\ tmpl = TmplCat /\ data = <<"a", " ", "a">> /\ pc = "FAILED"
    /\ ArgCounts(parsedRequestedResult) = <<3>> /\ ArgCounts(parsedBaselineResult) = <<2>>
    /\ err = ErrShInjection

\* ------------------------------------------------------------------------
\* C4
\* ------------------------------------------------------------------------

Dash == <<"-">>

FlagPartPair(pa, pb) ==
    /\ pa.kind \in {"Lit", "SglQuoted"} /\ pb.kind = pa.kind
    /\ ~HasPrefix(pa.value, Dash) /\ HasPrefix(pb.value, Dash)

\* some argument other than argument 0 of a call of fa has a literal or
\* single-quoted part without a leading '-' whose counterpart in fb has one
FlagCase(fa, fb) ==
    \E k \in 1..Len(fa.stmts) :
        /\ k <= Len(fb.stmts)
        /\ \E i \in 2..Len(fa.stmts[k].cmd.args) :
            /\ i <= Len(fb.stmts[k].cmd.args)
            /\ LET wa == fa.stmts[k].cmd.args[i]
                   wb == fb.stmts[k].cmd.args[i]
               IN  \E j \in 1..Len(wa) :
                    /\ j <= Len(wb)
                    /\ \/ FlagPartPair(wa[j], wb[j])
                       \/ /\ wa[j].kind = "DblQuoted" /\ wb[j].kind = "DblQuoted"
                          /\ \E m \in 1..Len(wa[j].parts) :
                                m <= Len(wb[j].parts) /\ FlagPartPair(wa[j].parts[m], wb[j].parts[m])

\* C4: when a non-first argument has a literal or single-quoted part that
\* does not start with '-' in the baseline and does in the requested
\* rendering (or, for shtemplate, in the mutated one), the call ends in
\* ErrShInjection.
C4_FlagInjectionRejected ==
    (/\ IsShell /\ Terminal
     /\ parsedBaselineResult.ok /\ parsedRequestedResult.ok
     /\ \/ FlagCase(parsedBaselineResult, parsedRequestedResult)
        \/ IsTemplate /\ parsedMutatedResult.ok /\ FlagCase(parsedBaselineResult, parsedMutatedResult))
    => err = ErrShInjection

\* cat {{.x}} with the data "-a": same shape, but a flag
C4_Witness ==
    /\ IsTemplate /\ tmpl = TmplCat /\ data = <<"-", "a">> /\ pc = "FAILED" /\ matched = "F"
    /\ FlagCase(parsedBaselineResult, parsedRequestedResult)
    /\ FileWordKinds(parsedRequestedResult) = FileWordKinds(parsedBaselineResult)

\* ------------------------------------------------------------------------
\* C5
\* ------------------------------------------------------------------------

FlagLike(d) == d # <<>> /\ d[1] = "-" /\ OnlyChars(d, {"a", "-"})

\* C5: cat {{ AllowFlags .x }} with x a flag (a leading '-', then letters
\* and dashes): the Execute never fails, the baseline and mutated renderings
\* carry the argument with a '-' prefix, and the call returns nil having
\* written cat followed by x.
C5_AllowFlagsAccepted ==
    (IsTemplate /\ tmpl = TmplAllowFlags /\ FlagLike(data)) =>
        /\ pc # "FAILED"
        /\ baselineResult # <<>> => baselineResult = <<"c", "a", "t", " ", "-">> \o BaselineString(data)
        /\ mutatedResult # <<>> => mutatedResult = <<"c", "a", "t", " ", "-">> \o mutateString(data)
        /\ pc = "EMITTED" => err = "nil" /\ wr = <<"c", "a", "t", " ">> \o data

\* cat {{ AllowFlags .x }} with x = "-a" has been emitted
C5_Witness ==
    /\ IsTemplate /\ tmpl = TmplAllowFlags /\ data = <<"-", "a">> /\ pc = "EMITTED"
    /\ wr = <<"c", "a", "t", " ", "-", "a">> /\ err = "nil"

\* ------------------------------------------------------------------------
\* C6
\* ------------------------------------------------------------------------

\* the strings of the positions compared exactly: the command name, the
\* redirection targets and the here-document bodies of each statement
ExactStrings(f) ==
    [k \in 1..Len(f.stmts) |->
        LET st == f.stmts[k]
        IN  (IF st.cmd.args = <<>> THEN <<>> ELSE WordStrings(st.cmd.args[1], TRUE))
            \o Flatten([i \in 1..Len(st.redirs) |-> WordStrings(st.redirs[i].word, TRUE)])
            \o Flatten([i \in 1..Len(st.redirs) |-> WordStrings(st.redirs[i].hdoc, TRUE)])]

\* C6: in shtemplate an accepted Execute has the same literal strings in
\* the command name, the redirection targets and the here-document bodies
\* of all three renderings, so an un-annotated substitution of a string in
\* one of these positions (bla > {{.x}}, {{.x}} arg, a here-document with
\* {{.x}} in its body) ends in ErrShInjection.
C6_ExactPositions ==
    /\ (IsTemplate /\ Accepted) =>
        /\ ExactStrings(parsedRequestedResult) = ExactStrings(parsedBaselineResult)
        /\ ExactStrings(parsedMutatedResult) = ExactStrings(parsedBaselineResult)
    /\ (IsTemplate /\ Terminal /\ tmpl \in {TmplRedirect, TmplCommand, TmplHeredoc}) => err = ErrShInjection

\* what holds of the code: the strings are the same in the positions that
\* the baseline has
C6_ComparedPositions ==
    /\ (IsTemplate /\ Accepted) =>
        /\ ExactStrings(Corresponding(parsedRequestedResult)) = ExactStrings(parsedBaselineResult)
        /\ ExactStrings(Corresponding(parsedMutatedResult)) = ExactStrings(parsedBaselineResult)
    /\ (IsTemplate /\ Terminal /\ tmpl \in {TmplRedirect, TmplCommand, TmplHeredoc}) => err = ErrShInjection

\* echo {{.x}} with a>a: accepted with the redirection targets a and aa
C6_UncomparedTarget ==
    /\ IsTemplate /\ Accepted /\ tmpl = TmplEcho /\ data = <<"a", ">", "a">>
    /\ ExactStrings(parsedBaselineResult) = <<<<<<"e", "c", "h", "o">>>>>>
    /\ ExactStrings(parsedRequestedResult) = <<<<<<"e", "c", "h", "o">>, <<"a">>>>>>
    /\ ExactStrings(parsedMutatedResult) = <<<<<<"e", "c", "h", "o">>, <<"a", "a">>>>>>

\* bla > {{.x}} with a plain file name: same shape, rejected by the judge
C6_Witness ==
    /\ IsTemplate /\ tmpl = TmplRedirect /\ data = Hello /\ pc = "FAILED" /\ matched = "F"
    /\ FileWordKinds(parsedRequestedResult) = FileWordKinds(parsedBaselineResult)
    /\ err = ErrShInjection

\* ------------------------------------------------------------------------
\* C7
\* ------------------------------------------------------------------------

GlobSet == {"?", "*", "+", "@", "!"}

SameGlobCounts(la, lb) ==
    /\ Len(la) = Len(lb)
    /\ \A n \in 1..Len(la) : \A g \in GlobSet : Count(la[n], g) = Count(lb[n], g)

HasGlob(d) == \E i \in 1..Len(d) : d[i] \in GlobSet

\* C7: in shtemplate an accepted Execute has, in every literal part of every
\* word (command name, arguments, assigned values, redirection targets)
\* that has a literal of the baseline at its place, as
\* many of each of ? * + @ ! in the requested and in the mutated
\* rendering as in the baseline; so data with one of them in an argument
\* (echo {{.x}}) or in an assigned value (x={{.x}}) ends in ErrShInjection.
C7_GlobCountsPreserved ==
    /\ (IsTemplate /\ Accepted) =>
        /\ SameGlobCounts(FileLiterals(parsedBaselineResult),
                          FileLiterals(Corresponding(parsedRequestedResult)))
        /\ SameGlobCounts(FileLiterals(parsedBaselineResult),
                          FileLiterals(Corresponding(parsedMutatedResult)))
    /\ (IsTemplate /\ Terminal /\ tmpl \in {TmplEcho, TmplAssign, TmplDblQuoted} /\ HasGlob(data))
        => err = ErrShInjection

\* x={{.x}} with the data "a*": same shape, one more '*' in the assigned
\* value, rejected by the judge
C7_Witness ==
    /\ IsTemplate /\ tmpl = TmplAssign /\ data = <<"a", "*">> /\ pc = "FAILED" /\ matched = "F"
    /\ FileWordKinds(parsedRequestedResult) = FileWordKinds(parsedBaselineResult)
    /\ FileWordKinds(parsedMutatedResult) = FileWordKinds(parsedBaselineResult)
    /\ ~SameGlobCounts(FileLiterals(parsedBaselineResult), FileLiterals(parsedRequestedResult))

\* ------------------------------------------------------------------------
\* C8
\* ------------------------------------------------------------------------

\* the number of backslashes that end t[1..i]
RECURSIVE BackslashRun(_, _)
BackslashRun(t, i) == IF i = 0 \/ t[i] # "\\" THEN 0 ELSE 1 + BackslashRun(t, i - 1)

UnescapedGlob(t) == \E i \in 1..Len(t) : t[i] \in GlobSet /\ BackslashRun(t, i - 1) % 2 = 0

UnpairedTrailingBackslash(t) == BackslashRun(t, Len(t)) % 2 = 1

CleanCaptures(la, lb) ==
    /\ Len(la) = Len(lb)
    /\ \A n \in 1..Len(la) :
        LET m == FindStringSubmatch(PatternOf(la[n]), lb[n])
        IN  /\ m.ok
            /\ \A g \in 1..Len(m.groups) :
                ~UnescapedGlob(m.groups[g]) /\ ~UnpairedTrailingBackslash(m.groups[g])

C9_PlusAccepted ==
    (IsPrintf /\ tmpl = FmtEcho /\ Terminal
        /\ data # <<>> /\ data[1] = "a" /\ OnlyChars(data, {"a", "+"}))
    => err = "nil"

\* ------------------------------------------------------------------------
\* C10
\* ------------------------------------------------------------------------

\* the three renderings, from the inputs
BaselineOf(t, d) ==
    IF IsTemplate
    THEN ExecuteWithShCallback(t, TRUE, "BaselineString", "prefixDash", d)
    ELSE Substituted(t, replaceableIndicator)
HonestOf(t, d) == Substituted(t, d)
MutatedOf(t, d) ==
    ExecuteWithShCallback(t, TRUE, "mutateString", "prefixDash", d)

\* C10: a call whose baseline rendering does not parse ends in
\* ErrInvalidShTemplate; one whose baseline parses and whose honest
\* rendering (or, in shtemplate, mutated rendering) does not, ends in
\* ErrShInjection; and ErrInvalidShTemplate is returned in no other case.
C10_ParseFailureClassification ==
    Terminal =>
        /\ ~Parse(BaselineOf(tmpl, data)).ok <=> err = ErrInvalidShTemplate
        /\ (Parse(BaselineOf(tmpl, data)).ok /\ ~Parse(HonestOf(tmpl, data)).ok) => err = ErrShInjection
        /\ (IsTemplate /\ Parse(BaselineOf(tmpl, data)).ok /\ ~Parse(MutatedOf(tmpl, data)).ok)
            => err = ErrShInjection

\* echo %s with a lone backquote: the baseline parses, the honest rendering
\* does not
C10_Witness ==
    /\ IsPrintf /\ tmpl = FmtEcho /\ data = <<BQ>> /\ pc = "FAILED"
    /\ parsedBaselineResult.ok /\ ~Parse(requestedResult).ok /\ err = ErrShInjection

\* ------------------------------------------------------------------------
\* C11
\* ------------------------------------------------------------------------

\* C11: when Execute has returned nil, the writer holds exactly the honest
\* rendering, which is the text of the template with the data in the place
\* of every action: what the plain template engine produces.
C11_EmitsHonestRendering ==
    (IsTemplate /\ pc = "EMITTED" /\ err = "nil") =>
        /\ wr = requestedResult
        /\ wr = Substituted(tmpl, data)

\* echo "{{.x}}" with the data "a a" has been emitted; the baseline and the
\* mutated renderings are other texts
C11_Witness ==
    /\ IsTemplate /\ tmpl = TmplDblQuoted /\ data = <<"a", " ", "a">> /\ pc = "EMITTED"
    /\ wr = <<"e", "c", "h", "o", " ", "\"", "a", " ", "a", "\"">>
    /\ baselineResult # wr /\ mutatedResult # wr

\* ------------------------------------------------------------------------
\* C12
\* ------------------------------------------------------------------------

\* C12: a SprintfLang that has returned gives either the string of
\* fmt.Sprintf for the same format and operands with a nil error, or the
\* empty string with ErrInvalidShTemplate or ErrShInjection.
C12_SprintfOutcomes ==
    (IsPrintf /\ Terminal) =>
        \/ pc = "RETURNED" /\ err = "nil" /\ result = FmtSprintf(tmpl, a)
        \/ pc = "FAILED" /\ err \in {ErrInvalidShTemplate, ErrShInjection} /\ result = <<>>

\* what holds of the code: every call that returns has one of the three
\* outcomes
C12_ReturnedOutcomes ==
    (IsPrintf /\ Terminal /\ pc # "PANICKED") =>
        \/ pc = "RETURNED" /\ err = "nil" /\ result = FmtSprintf(tmpl, a)
        \/ pc = "FAILED" /\ err \in {ErrInvalidShTemplate, ErrShInjection} /\ result = <<>>

\* a Sprintf rejected by the judge: the rendered string exists and is not
\* returned
C12_Witness ==
    /\ IsPrintf /\ pc = "FAILED" /\ err = ErrShInjection /\ matched = "F"
    /\ requestedResult # <<>> /\ result = <<>>

\* the comment lists of a parsed file: one per statement, then the comments
\* after the last statement
CommentLists(f) == [k \in 1..Len(f.stmts) |-> f.stmts[k].comments] \o <<f.last>>

\* the text t is the text p with anything in the place of every placeholder
MatchesWithWildcards(p, t) == FindStringSubmatch(PatternOf(p), t).ok

SameComments(b, r) ==
    /\ Len(CommentLists(r)) = Len(CommentLists(b))
    /\ \A k \in 1..Len(CommentLists(b)) :
           /\ Len(CommentLists(r)[k]) = Len(CommentLists(b)[k])
           /\ \A i \in 1..Len(CommentLists(b)[k]) :
                  MatchesWithWildcards(CommentLists(b)[k][i], CommentLists(r)[k][i])

CommentInjection == <<"x", ";", "b", " ", "#">>

\* C13: the printf judge keeps the comments of both parses and compares
\* them: a call of Sprintf that returns a string has, statement by statement
\* and after the last statement, as many comments in the honest rendering as
\* in the baseline, each matching the baseline's text with the placeholders
\* as wildcards; and the argument "x;b #" in "a %s;b #c", which leaves two
\* statements of the same shape and turns the rest of the format into a
\* comment, ends in ErrShInjection.
C13_CommentsCompared ==
    (IsPrintf /\ Terminal) =>
        /\ pc = "RETURNED" => SameComments(parsedBaselineResult, parsedRequestedResult)
        /\ (tmpl = FmtComment /\ data = CommentInjection) =>
               /\ pc = "FAILED" /\ err = ErrShInjection /\ result = <<>>
               /\ ArgCounts(parsedRequestedResult) = ArgCounts(parsedBaselineResult)

C13_Witness ==
    /\ IsPrintf /\ tmpl = FmtComment /\ data = CommentInjection
    /\ pc = "FAILED" /\ err = ErrShInjection
    /\ ArgCounts(parsedRequestedResult) = <<2, 1>>
    /\ ArgCounts(parsedBaselineResult) = <<2, 1>>
    /\ parsedBaselineResult.stmts[2].comments = <<<<"c">>>>
    /\ parsedRequestedResult.stmts[2].comments = <<<<";", "b", " ", "#", "c">>>>

\* a comment that holds the placeholder takes any argument
C13_WildcardWitness ==
    /\ IsPrintf /\ tmpl = FmtInComment /\ data = <<"a", " ", "*">> /\ pc = "RETURNED"
    /\ parsedRequestedResult.stmts[1].comments = <<data>>

\* the call of the escaping caller has come to its end
EscapedCallDone == IsPrintf /\ tmpl = FmtArg /\ pc # "CALLER" /\ Terminal

\* every character that literalInjection looks for stands after an odd run
\* of backslashes, and the backslashes at the end pair up
GlobCheckQuiet(t) ==
    /\ \A i \in 1..Len(t) :
           t[i] \in {"?", "*", "+", "@", "!"} => BackslashRun(t, i - 1) % 2 = 1
    /\ BackslashRun(t, Len(t)) % 2 = 0

\* C14: Sprintf("cmd --arg=%s", EscapeDefaultContext(s)) returns the
\* rendered string and a nil error for every s; in the escaped argument every
\* ? * + @ ! is preceded by an escaping backslash and the backslashes at its
\* end pair up, so the glob check of the judge does not fire on it.
C14_EscapedArgumentAccepted ==
    EscapedCallDone =>
        /\ pc = "RETURNED" /\ err = "nil" /\ matched = "T"
        /\ result = Substituted(tmpl, data)
        /\ GlobCheckQuiet(data)
        /\ ~literalInjection2(data)

C14_Witness ==
    /\ EscapedCallDone /\ pc = "RETURNED"
    /\ arg = <<"*", "\\", " ">>
    /\ data = <<"\\", "*", "\\", "\\", "\\", " ">>

\* EscapeDefaultContext has been applied to arg and data is what it returned
Escaped == IsPrintf /\ tmpl = FmtArg /\ pc # "CALLER"

ShellSpecials ==
    {"\\", "'", "\"", BQ, "$", "[", "|", "&", ";", "<", ">", "(", ")", "*", "?", "!", "+", "@"}
Whitespace == {" ", "\t", "\r", "\n"}

\* the number of characters of s[1..i] that are in the set cs
CountIn(s, i, cs) == Cardinality({j \in 1..i : s[j] \in cs})

\* t is s with one backslash before each of its characters that is in cs,
\* and nothing else added, removed or moved
BackslashBeforeEach(s, t, cs) ==
    /\ Len(t) = Len(s) + CountIn(s, Len(s), cs)
    /\ \A i \in 1..Len(s) :
           /\ t[i + CountIn(s, i, cs)] = s[i]
           /\ s[i] \in cs => t[i + CountIn(s, i, cs) - 1] = "\\"

\* C15: EscapeDefaultContext(s) is s with one backslash before each
\* character that is one of \ ' " ` $ { [ | & ; < > ( ) * ? ! + @, a
\* whitespace character (space, tab, CR, LF) or '~', wherever it stands;
\* every other character is copied unchanged and the order is kept.
C15_EscapeDefaultContext ==
    Escaped => BackslashBeforeEach(arg, data, ShellSpecials \cup {"{"} \cup Whitespace \cup {"~"})

C15_Witness ==
    /\ Escaped
    /\ arg = <<"a", "~", "{">>
    /\ data = <<"a", "\\", "~", "\\", "{">>

\* the escaping as the sentence has it: no backslash before '{', and one
\* before '~' only where it leads the string
RECURSIVE EscapedAsStated(_, _)
EscapedAsStated(s, i) ==
    IF i > Len(s) THEN <<>>
    ELSE (IF s[i] \in ShellSpecials \cup Whitespace \/ (s[i] = "~" /\ i = 1)
          THEN <<"\\">> ELSE <<>>)
         \o <<s[i]>> \o EscapedAsStated(s, i + 1)

C15_AsStated == Escaped => data = EscapedAsStated(arg, 1)

\* the format with d in full in the place of every verb
FullySubstituted(t, d) == Substituted(t, d)

\* the format with d cut to two characters in the place of every verb
CutSubstituted(t, d) == Substituted(t, IF Len(d) > 2 THEN SubSeq(d, 1, 2) ELSE d)

\* C16: for a format whose %s specifiers carry a precision, the baseline
\* rendering has the full placeholder REPLACEABLE for every specifier,
\* wherever the specifier stands and also when one directly follows another;
\* an argument of one or more plain letters is accepted and the returned string is the
\* format with the argument cut to the precision.
C16_TruncationRemovedEverywhere ==
    (IsPrintf /\ tmpl \in TruncFormats) =>
        /\ pc # "INIT" => baselineResult = FullySubstituted(tmpl, replaceableIndicator)
        /\ (Terminal /\ data # <<>> /\ OnlyChars(data, {"a"})) =>
               /\ pc = "RETURNED" /\ err = "nil"
               /\ result = CutSubstituted(tmpl, data)

\* C20: a panic inside Execute of shtemplate with non-nil data (here: the
\* index out of range of redirectsArrayMatch or statementsArrayMatch when
\* the honest or the mutated rendering has a shorter list than the baseline)
\* is recovered: Execute returns ErrShInjection, never ends as a panic, and
\* nothing is written to the writer.
C20_PanicRecovered ==
    IsTemplate =>
        /\ pc # "PANICKED"
        /\ matched = "P" => (pc = "FAILED" /\ err = ErrShInjection /\ wr = <<>>)

\* a > b with an argument that begins a comment: the honest statement has no
\* redirection where the baseline has one
C20_Witness ==
    /\ IsTemplate /\ tmpl = TmplArgRedirect /\ data = <<"a", " ", "#">>
    /\ matched = "P" /\ pc = "FAILED" /\ err = ErrShInjection /\ wr = <<>>
    /\ Len(parsedBaselineResult.stmts) = Len(parsedRequestedResult.stmts)
    /\ Len(parsedBaselineResult.stmts[1].redirs) = 1
    /\ Len(parsedRequestedResult.stmts[1].redirs) = 0

\* the same inside a command substitution: the honest substitution has one
\* statement where the baseline has two
C20_NestedWitness ==
    /\ IsTemplate /\ tmpl = TmplCmdSubst /\ data = <<"a", " ", "#">>
    /\ matched = "P" /\ pc = "FAILED" /\ err = ErrShInjection /\ wr = <<>>

\* ------------------------------------------------------------------------
\* C17: StructuralData
\* ------------------------------------------------------------------------

BaselineRendered == pc \notin {"INIT", "RENDERED_HONEST"}
MutatedRendered == pc \in {"RENDERED_MUTATED", "PARSED_MUTATED", "JUDGED", "EMITTED"}

Filename == <<"a", "a", "a">>
PersonBla42 == <<"{", " ", "P", "-", "b", "l", "a", ":", " ", "4", "2", " ", "}">>

\* the text of { P-{{StructuralData .x}}: {{.Age}} } with d for x and 42 for Age
OptOutText(d) == <<"{", " ", "P", "-">> \o d \o <<":", " ", "4", "2", " ", "}">>

\* C17: the argument of StructuralData is rendered as it is in the baseline
\* and mutated passes as in the honest pass, and no data given through it is
\* reported as an injection: for bla > {{StructuralData .x}} every call
\* whose text the shell parser reads emits that text and returns nil (a text
\* it cannot read is an invalid template), and with a plain file name the
\* call returns nil where bla > {{.x}} returns ErrShInjection; the YAML
\* template { P-{{StructuralData .x}}: {{.Age}} } with "bla" and 42 emits
\* exactly { P-bla: 42 }
C17_StructuralDataExempt ==
    /\ (IsTemplate /\ tmpl = TmplStructuralRedirect) =>
           /\ BaselineRendered => baselineResult = Substituted(tmpl, data)
           /\ MutatedRendered => mutatedResult = Substituted(tmpl, data)
           /\ err # ErrShInjection
           /\ Terminal => \/ pc = "EMITTED" /\ err = "nil" /\ wr = Substituted(tmpl, data)
                          \/ pc = "FAILED" /\ err = ErrInvalidShTemplate /\ wr = <<>>
           /\ (Terminal /\ data = Filename) => pc = "EMITTED"
    /\ (IsTemplate /\ tmpl = TmplRedirect /\ Terminal /\ data = Filename) =>
           err = ErrShInjection /\ wr = <<>>
    /\ (IsYaml /\ tmpl = YamlOptOut) =>
           /\ BaselineRendered => baselineResult = OptOutText(data)
           /\ MutatedRendered => mutatedResult = OptOutText(data)
           /\ (Terminal /\ data = Bla) => (pc = "EMITTED" /\ err = "nil" /\ wr = PersonBla42)

\* bla > {{StructuralData .x}} with a command substitution as the data:
\* accepted, where echo {{.x}} rejects the same data
C17_Witness ==
    /\ IsTemplate /\ tmpl = TmplStructuralRedirect /\ data = <<BQ, "a", BQ>>
    /\ pc = "EMITTED" /\ err = "nil"
    /\ wr = <<"b", "l", "a", " ", ">", " ", BQ, "a", BQ>>
    /\ parsedRequestedResult.ok /\ parsedBaselineResult = parsedRequestedResult
    /\ parsedMutatedResult = parsedRequestedResult

\* the YAML template with "bla": { P-bla: 42 } is emitted
C17_YamlWitness ==
    /\ IsYaml /\ tmpl = YamlOptOut /\ data = Bla /\ pc = "EMITTED" /\ wr = PersonBla42
    /\ baselineResult = PersonBla42 /\ mutatedResult = PersonBla42

\* ------------------------------------------------------------------------
\* C18: YAML injection
\* ------------------------------------------------------------------------

\* the parse shape of a node: its kind, its keys when it is a mapping, and
\* the shapes of its children; scalar values are no part of it
RECURSIVE Shape(_)
Shape(n) ==
    [kind |-> n.kind,
     keys |-> Len(n.keys),
     sub |-> [i \in 1..Len(n.content) |-> Shape(n.content[i])]]

Shapes(y) == [i \in 1..Len(y.docs) |-> Shape(y.docs[i])]

RECURSIVE HasAlias(_)
HasAlias(n) ==
    \/ n.kind = "alias"
    \/ \E i \in 1..Len(n.content) : HasAlias(n.content[i])

\* templates whose data reference is not annotated and whose baseline
\* rendering is a valid document
PlainYamlTemplates == {YamlHello, YamlSequence, YamlAnchor, YamlKey}

Letters == {"a", "h", "b", "l"}
HelloBla == <<"{", " ", "h", ":", " ", "b", "l", "a", " ", "}">>

\* the honest rendering was parsed and its shape is not the baseline's
ShapeChanged ==
    /\ parsedBaselineResult.ok /\ parsedRequestedResult.ok
    /\ Shapes(parsedRequestedResult) # Shapes(parsedBaselineResult)

\* C18: Execute of yamltemplate returns ErrYAMLInjection, and writes
\* nothing, whenever the data of an un-annotated reference gives the honest
\* rendering another parse shape than the baseline rendering has (another
\* number of documents, another kind of node at a position, another number
\* of keys in a mapping or of elements in a sequence, an alias where the
\* baseline has a scalar); an accepted call has the baseline's shape in the
\* honest and the mutated rendering and emits the text/template output
\* unchanged; data of letters only in a value position is accepted;
\* { h: {{.x}} } with "bla" emits { h: bla } and with "a, b: c" is rejected
C18_YamlInjection ==
    (IsYaml /\ tmpl \in PlainYamlTemplates) =>
        /\ (Terminal /\ ShapeChanged) => (pc = "FAILED" /\ err = ErrYAMLInjection /\ wr = <<>>)
        /\ pc = "EMITTED" =>
               /\ Shapes(parsedRequestedResult) = Shapes(parsedBaselineResult)
               /\ Shapes(parsedMutatedResult) = Shapes(parsedBaselineResult)
               /\ err = "nil" /\ wr = Substituted(tmpl, data)
        /\ (Terminal /\ tmpl # YamlKey /\ data # <<>> /\ OnlyChars(data, Letters)) => pc = "EMITTED"
        /\ (Terminal /\ tmpl = YamlHello /\ data = Bla) => wr = HelloBla
        /\ (Terminal /\ tmpl = YamlHello /\ data = AddedKey) => err = ErrYAMLInjection

\* { h: {{.x}} } with "a, b: c": the honest rendering is a mapping of two
\* keys where the baseline has one
C18_Witness ==
    /\ IsYaml /\ tmpl = YamlHello /\ data = AddedKey /\ pc = "FAILED"
    /\ err = ErrYAMLInjection /\ wr = <<>> /\ ShapeChanged
    /\ Len(parsedRequestedResult.docs[1].keys) = 2 /\ Len(parsedBaselineResult.docs[1].keys) = 1

\* [ a, {{.x}} ] with "a, b": three elements where the baseline has two
C18_ElementWitness ==
    /\ IsYaml /\ tmpl = YamlSequence /\ data = AddedElement /\ pc = "FAILED"
    /\ err = ErrYAMLInjection /\ ShapeChanged
    /\ Len(parsedRequestedResult.docs[1].content) = 3

\* { h: {{.x}} } with "{}": a mapping where the baseline has a scalar
C18_KindWitness ==
    /\ IsYaml /\ tmpl = YamlHello /\ data = <<"{", "}">> /\ pc = "FAILED"
    /\ err = ErrYAMLInjection /\ ShapeChanged
    /\ parsedRequestedResult.docs[1].content[1].kind = "mapping"

\* { h: {{.x}} } with "a }", a document boundary, "{ b": two documents
C18_DocumentWitness ==
    /\ IsYaml /\ tmpl = YamlHello /\ data = AddedDocument /\ pc = "FAILED"
    /\ err = ErrYAMLInjection /\ ShapeChanged
    /\ Len(parsedRequestedResult.docs) = 2 /\ Len(parsedBaselineResult.docs) = 1

\* { s: &a 't', d: {{.x}} } with "*a": an alias where the baseline has a scalar
C18_AliasWitness ==
    /\ IsYaml /\ tmpl = YamlAnchor /\ data = <<"*", "a">> /\ pc = "FAILED"
    /\ err = ErrYAMLInjection /\ ShapeChanged
    /\ HasAlias(parsedRequestedResult.docs[1]) /\ ~HasAlias(parsedBaselineResult.docs[1])

\* { h: {{.x}} } with "bla": accepted and emitted
C18_AcceptedWitness ==
    IsYaml /\ tmpl = YamlHello /\ data = Bla /\ pc = "EMITTED" /\ wr = HelloBla

\* ------------------------------------------------------------------------
\* C21: the writer's error
\* ------------------------------------------------------------------------

\* C21: when the caller's writer fails while the honest rendering of an
\* otherwise successful Execute is emitted, Execute returns the writer's
\* error, neither nil nor ErrShInjection
C21_WriterErrorReturned ==
    (IsTemplate /\ writer = "failing" /\ pc = "EMITTED") => err = ErrWriter

\* what Execute does instead: every call that reaches the emit step returns
\* nil, whatever the writer made of the bytes
C21_WriterErrorDropped ==
    (IsTemplate /\ pc = "EMITTED") => err = "nil"

\* echo {{.x}} with "aaa" and a failing writer that took no byte: nil
C21_DroppedWitness ==
    /\ IsTemplate /\ tmpl = TmplEcho /\ data = Hello /\ writer = "failing"
    /\ pc = "EMITTED" /\ err = "nil" /\ wr = <<>>

\* ------------------------------------------------------------------------
\* C22: errors of the template engine
\* ------------------------------------------------------------------------

\* the pass in which the engine fails for the template t and the data d,
\* "none" when no pass fails
FailingPass(t, d) ==
    IF ExecuteError(t, FALSE, "EchoString", d) # "nil" THEN "honest"
    ELSE IF ExecuteError(t, TRUE, "BaselineString", d) # "nil" THEN "baseline"
    ELSE IF ExecuteError(t, TRUE, "mutateString", d) # "nil" THEN "mutated"
    ELSE "none"

\* C22: when the template engine returns an error in the honest, the
\* baseline or the mutated pass, Execute returns that error (not
\* ErrShInjection, not ErrInvalidShTemplate), no later stage runs, and the
\* writer receives nothing; an error of the mutated pass is reached only
\* when both earlier renderings parsed
C22_EngineErrorReturned ==
    IsTemplate =>
        /\ err = ExecError =>
               /\ pc = "FAILED" /\ wr = <<>> /\ matched = "unset"
               /\ FailingPass(tmpl, data) # "none"
               /\ FailingPass(tmpl, data) = "honest" =>
                      requestedResult = <<>> /\ baselineResult = <<>>
               /\ FailingPass(tmpl, data) \in {"honest", "baseline"} =>
                      ~parsedBaselineResult.ok /\ ~parsedRequestedResult.ok
               /\ mutatedResult = <<>> /\ ~parsedMutatedResult.ok
        /\ (Terminal /\ FailingPass(tmpl, data) \in {"honest", "baseline"}) => err = ExecError
        /\ (Terminal /\ FailingPass(tmpl, data) = "mutated") =>
               err \in {ExecError, ErrInvalidShTemplate, ErrShInjection}
        /\ (Terminal /\ FailingPass(tmpl, data) = "mutated"
              /\ parsedBaselineResult.ok /\ parsedRequestedResult.ok) => err = ExecError

\* echo {{atMost4 .x}}: the function fails on the baseline placeholder
C22_Witness ==
    /\ IsTemplate /\ tmpl = TmplAtMost4 /\ data = Hello /\ pc = "FAILED" /\ err = ExecError
    /\ requestedResult # <<>> /\ baselineResult = <<>> /\ wr = <<>>

\* echo {{nonEmpty .x}} with the empty string: the honest pass fails
C22_HonestWitness ==
    /\ IsTemplate /\ tmpl = TmplNonEmpty /\ data = <<>> /\ pc = "FAILED" /\ err = ExecError
    /\ requestedResult = <<>> /\ wr = <<>>

\* echo {{not4 .x}} with "aa": the mutated pass fails on "aaaa"
C22_MutatedWitness ==
    /\ IsTemplate /\ tmpl = TmplNot4 /\ data = <<"a", "a">> /\ pc = "FAILED" /\ err = ExecError
    /\ parsedBaselineResult.ok /\ parsedRequestedResult.ok /\ mutatedResult = <<>> /\ wr = <<>>

\* ------------------------------------------------------------------------
\* C24: determinism
\* ------------------------------------------------------------------------

C24_SprintfWitness ==
    /\ run = 2 /\ IsPrintf /\ tmpl = FmtEcho /\ data = Hello
    /\ pc = "RETURNED" /\ result = prev.out /\ result # <<>>

\* ------------------------------------------------------------------------
\* C25: data without strings
\* ------------------------------------------------------------------------

Unsafe == UnsafeExecute(tmpl, data)

C25_InvalidWitness ==
    /\ IsTemplate /\ tmpl = TmplIntUnclosed /\ data = <<"3">> /\ pc = "FAILED"
    /\ err = ErrInvalidShTemplate /\ wr = <<>>
    /\ Unsafe.err = "nil" /\ Unsafe.out = <<"e", "c", "h", "o", " ", "\"", "3">>

\* echo {{IntSmall .n}} with 13: text/template has written echo and a
\* space when the function fails, Execute has written nothing
C25_ErrorWitness ==
    /\ IsTemplate /\ tmpl = TmplIntSmall /\ data = <<"1", "3">> /\ pc = "FAILED"
    /\ err = ExecError /\ wr = <<>> /\ Unsafe.err = ExecError /\ Unsafe.out # <<>>

\* ------------------------------------------------------------------------
\* C26: the order of the stages of Execute
\* ------------------------------------------------------------------------

Stages == <<"INIT", "RENDERED_HONEST", "RENDERED_BASELINE", "PARSED_BASELINE", "PARSED_HONEST",
            "RENDERED_MUTATED", "PARSED_MUTATED", "JUDGED", "EMITTED">>

StageOf(p) == CHOOSE i \in 1..Len(Stages) : Stages[i] = p

\* the error a failure of the stage that follows p returns
FailureOf(p) ==
    CASE p \in {"INIT", "RENDERED_HONEST", "PARSED_HONEST"} -> {ExecError}
      [] p = "RENDERED_BASELINE" -> {ErrInvalidShTemplate}
      [] p \in {"PARSED_BASELINE", "RENDERED_MUTATED", "PARSED_MUTATED"} -> {ErrShInjection}
      [] OTHER -> {}

\* what the stage that leads to p has established when it succeeded
Succeeded(p) ==
    CASE p = "PARSED_BASELINE" -> parsedBaselineResult.ok
      [] p = "PARSED_HONEST" -> parsedRequestedResult.ok
      [] p = "PARSED_MUTATED" -> parsedMutatedResult.ok
      [] p = "JUDGED" -> matched = "T"
      [] OTHER -> TRUE

StageStep ==
    (IsTemplate /\ pc' # pc) =>
        /\ pc \notin {"EMITTED", "FAILED"}
        /\ \/ /\ pc' = Stages[StageOf(pc) + 1]
              /\ Succeeded(pc)'
              /\ IF pc' = "EMITTED" THEN err' = "nil" ELSE err' = err /\ wr' = wr
           \/ /\ pc' = "FAILED"
              /\ err' \in FailureOf(pc)
              /\ wr' = wr

BothUnparsable ==
    /\ IsTemplate /\ pc = "FAILED" /\ err \in {ErrInvalidShTemplate, ErrShInjection}
    /\ ~Parse(ExecuteWithShCallback(tmpl, TRUE, "BaselineString", "prefixDash", data)).ok
    /\ ~Parse(requestedResult).ok

\* C26: Execute moves only from a stage to the next one of honest render,
\* baseline render, baseline parse, honest parse, mutated render, mutated
\* parse, judge, emit, and only when the stage succeeded; a failure leads
\* to FAILED with the error of that stage and nothing follows it; EMITTED
\* is entered from JUDGED only; when neither the baseline nor the honest
\* rendering parses the error is ErrInvalidShTemplate
C26_StageOrder ==
    /\ [][StageStep]_vars
    /\ [](BothUnparsable => err = ErrInvalidShTemplate)

\* echo "{{.x}} with aaa: neither rendering parses, the template is invalid
C26_Witness ==
    /\ BothUnparsable /\ tmpl = TmplUnclosed /\ data = Hello /\ err = ErrInvalidShTemplate
    /\ baselineResult # <<>> /\ parsedBaselineResult = NoFile /\ mutatedResult = <<>>

\* a call that went through all stages
C26_EmittedWitness ==
    /\ IsTemplate /\ pc = "EMITTED" /\ err = "nil" /\ matched = "T"
    /\ parsedBaselineResult.ok /\ parsedRequestedResult.ok /\ parsedMutatedResult.ok
    /\ wr = requestedResult /\ wr # <<>>

\* a call ended by the honest parse: the later stages did not run
C26_HonestParseWitness ==
    /\ IsTemplate /\ pc = "FAILED" /\ err = ErrShInjection /\ parsedBaselineResult.ok
    /\ ~Parse(requestedResult).ok /\ mutatedResult = <<>> /\ matched = "unset"

\* ------------------------------------------------------------------------
\* C27: lists of redirections and nested lists of statements
\* ------------------------------------------------------------------------

\* a statement of x has another number of redirections than the statement
\* of the baseline at its place
RedirsDiffer(x) ==
    \E i \in 1..Len(parsedBaselineResult.stmts) :
        /\ i <= Len(x.stmts)
        /\ Len(x.stmts[i].redirs) # Len(parsedBaselineResult.stmts[i].redirs)

\* a command substitution of x holds another number of statements than the
\* command substitution of the baseline at its place
NestedDiffer(x) ==
    \E i \in 1..Len(parsedBaselineResult.stmts) :
        /\ i <= Len(x.stmts)
        /\ \E j \in 1..Len(parsedBaselineResult.stmts[i].cmd.args) :
               /\ j <= Len(x.stmts[i].cmd.args)
               /\ \E k \in 1..Len(parsedBaselineResult.stmts[i].cmd.args[j]) :
                      /\ k <= Len(x.stmts[i].cmd.args[j])
                      /\ parsedBaselineResult.stmts[i].cmd.args[j][k].kind = "CmdSubst"
                      /\ x.stmts[i].cmd.args[j][k].kind = "CmdSubst"
                      /\ Len(x.stmts[i].cmd.args[j][k].stmts)
                             # Len(parsedBaselineResult.stmts[i].cmd.args[j][k].stmts)

ListLengthsDiffer ==
    \/ RedirsDiffer(parsedRequestedResult) \/ RedirsDiffer(parsedMutatedResult)
    \/ NestedDiffer(parsedRequestedResult) \/ NestedDiffer(parsedMutatedResult)

Judged == IsTemplate /\ matched # "unset"

\* C27: the judge of Execute rejects whenever a list of redirections or a
\* nested list of statements of the requested or the mutated rendering has
\* another length than the list of the baseline at its place, be it
\* shorter or longer
C27_ListLengthsRejected ==
    (Judged /\ ListLengthsDiffer) => (pc = "FAILED" /\ err = ErrShInjection)

\* a list that is shorter than the baseline's is rejected
C27_ShorterRejected ==
    (Judged /\ \E x \in {parsedRequestedResult, parsedMutatedResult} :
         \E i \in 1..Len(parsedBaselineResult.stmts) :
             /\ i <= Len(x.stmts)
             /\ Len(x.stmts[i].redirs) < Len(parsedBaselineResult.stmts[i].redirs))
        => (pc = "FAILED" /\ err = ErrShInjection)

\* echo {{.x}} with a>a: the redirection the data adds is emitted
C27_AddedRedirection ==
    /\ IsTemplate /\ tmpl = TmplEcho /\ data = <<"a", ">", "a">> /\ pc = "EMITTED" /\ err = "nil"
    /\ wr = <<"e", "c", "h", "o", " ", "a", ">", "a">>
    /\ parsedBaselineResult.stmts[1].redirs = <<>>
    /\ Len(parsedRequestedResult.stmts[1].redirs) = 1
    /\ Len(parsedMutatedResult.stmts[1].redirs) = 1

\* echo `cat {{.x}}` with a, newline, a: the statement the data adds to the
\* command substitution is emitted
C27_AddedStatement ==
    /\ IsTemplate /\ tmpl = TmplCatSubst /\ data = <<"a", "\n", "a">> /\ pc = "EMITTED" /\ err = "nil"
    /\ Len(parsedBaselineResult.stmts[1].cmd.args[2][1].stmts) = 1
    /\ Len(parsedRequestedResult.stmts[1].cmd.args[2][1].stmts) = 2
    /\ Len(parsedMutatedResult.stmts[1].cmd.args[2][1].stmts) = 2

\* a {{.x}} >b with #: the requested rendering has lost the redirection
C27_ShorterWitness ==
    /\ Judged /\ tmpl = TmplArgRedirect /\ pc = "FAILED" /\ err = ErrShInjection
    /\ Len(parsedBaselineResult.stmts[1].redirs) = 1
    /\ parsedRequestedResult.stmts[1].redirs = <<>>

\* ------------------------------------------------------------------------
\* C28: declarations of functions in the printf judge
\* ------------------------------------------------------------------------

\* the call is over, both renderings are one declaration of the function b
\* and the statements of its body are the same in number
SameDeclaration ==
    /\ IsPrintf /\ Terminal /\ tmpl \in FuncFormats
    /\ parsedBaselineResult.ok /\ parsedRequestedResult.ok
    /\ Len(parsedBaselineResult.stmts) = 1 /\ Len(parsedRequestedResult.stmts) = 1
    /\ parsedBaselineResult.stmts[1].cmd.kind = "FuncDecl"
    /\ parsedRequestedResult.stmts[1].cmd.kind = "FuncDecl"
    /\ parsedRequestedResult.stmts[1].cmd.name = parsedBaselineResult.stmts[1].cmd.name

\* C28: SprintfLang on a format that declares a function, with no argument
\* or an argument that is one plain word, returns the formatted script and
\* a nil error
C28_FuncDeclAccepted ==
    (SameDeclaration /\ (tmpl = FmtFuncPlain \/ (OnlyChars(data, {"a"}) /\ data # <<>>)))
        => (pc = "RETURNED" /\ err = "nil" /\ result = requestedResult)

\* what the code does: every format that declares a function is rejected
C28_FuncDeclRejected ==
    SameDeclaration => (pc = "FAILED" /\ err = ErrShInjection /\ result = <<>> /\ matched = "F")

\* b() { a; } without arguments
C28_PlainRejected ==
    /\ SameDeclaration /\ tmpl = FmtFuncPlain /\ pc = "FAILED" /\ err = ErrShInjection
    /\ parsedRequestedResult = parsedBaselineResult

\* b() { echo %s; } with aaa
C28_ArgumentRejected ==
    /\ SameDeclaration /\ tmpl = FmtFunc /\ data = Hello /\ pc = "FAILED" /\ err = ErrShInjection

\* the template variant compares the names with each other: b() { echo
\* {{.x}}; } with aaa is emitted
C28_TemplateAccepted ==
    /\ IsTemplate /\ tmpl = TmplFunc /\ data = Hello /\ pc = "EMITTED" /\ err = "nil"
    /\ parsedRequestedResult.stmts[1].cmd.kind = "FuncDecl"
    /\ parsedRequestedResult.stmts[1].cmd.body[1].cmd.args[2][1].value = Hello

\* ------------------------------------------------------------------------
\* C29: panics of SprintfLang
\* ------------------------------------------------------------------------

\* C29: no call of SprintfLang ends in a panic
C29_NoPanicEscapes == IsPrintf => pc # "PANICKED"

\* echo ${x:-%s} with the empty string: the requested expansion has no
\* word, the comparison dereferences nil and the panic leaves SprintfLang
C29_PanicEscapes ==
    /\ IsPrintf /\ tmpl = FmtDefault /\ data = <<>> /\ pc = "PANICKED" /\ matched = "P"
    /\ err # ErrShInjection
    /\ parsedBaselineResult.stmts[1].cmd.args[2][1].exp = "word"
    /\ parsedRequestedResult.stmts[1].cmd.args[2][1].exp = "nilword"

\* a word in the place of the default is accepted
C29_DefaultAccepted ==
    /\ IsPrintf /\ tmpl = FmtDefault /\ data = Hello /\ pc = "RETURNED" /\ err = "nil"
    /\ result = <<"e", "c", "h", "o", " ", "$", "{", "x", ":", "-", "a", "a", "a", "}">>

\* Execute recovers from the same panic: echo ${x:-{{.x}}} with the empty
\* string is an injection
C29_TemplateRecovers ==
    /\ IsTemplate /\ tmpl = TmplDefault /\ data = <<>> /\ pc = "FAILED" /\ err = ErrShInjection
    /\ matched = "P"

\* ------------------------------------------------------------------------
\* C30: the command name in the printf judge
\* ------------------------------------------------------------------------

CommandNameCall == IsPrintf /\ tmpl = FmtCommand /\ Terminal

\* C30: in the printf judge the word of the command name is compared by
\* structure and the glob rule only: an argument in its place that is one
\* plain literal is accepted, also when it starts with '-'; one with an
\* unescaped * or + is rejected; Execute rejects every data in the place
\* of the command name
C30_CommandNameStructureOnly ==
    /\ (CommandNameCall /\ data # <<>> /\ OnlyChars(data, {"a", "-"}))
           => (pc = "RETURNED" /\ err = "nil" /\ result = data \o <<" ", "a">>)
    /\ (CommandNameCall /\ OnlyChars(data, {"a", "-", "*", "+"}) /\ ~OnlyChars(data, {"a", "-"}))
           => (pc = "FAILED" /\ err = ErrShInjection /\ result = <<>>)
    /\ (IsTemplate /\ tmpl = TmplCommand /\ Terminal) => (pc = "FAILED" /\ wr = <<>>)

\* %s a with -a: returned
C30_Witness ==
    /\ CommandNameCall /\ data = <<"-", "a">> /\ pc = "RETURNED" /\ err = "nil"
    /\ result = <<"-", "a", " ", "a">>
    /\ parsedRequestedResult.stmts[1].cmd.args[1][1].value = <<"-", "a">>

\* %s a with a*: the glob rule rejects it
C30_GlobWitness ==
    /\ CommandNameCall /\ data = <<"a", "*">> /\ pc = "FAILED" /\ err = ErrShInjection

\* {{.x}} arg with aaa: Execute rejects the data as command name
C30_TemplateWitness ==
    /\ IsTemplate /\ tmpl = TmplCommand /\ data = Hello /\ pc = "FAILED" /\ err = ErrShInjection
    /\ matched = "F"

====
